---- MODULE Spec2Model ----
(***************************************************************************)
(* Verification model of the NeXifyAI Builder pipeline.                    *)
(*                                                                         *)
(*   Part 1  build-analyze-fix loop  (lib/cicd/buildSystem.ts)             *)
(*                                                                         *)
(* Strings whose characters the code inspects (paths, file contents,       *)
(* error messages) are sequences of one-character strings.                 *)
(***************************************************************************)
EXTENDS Integers, Sequences, FiniteSets, TLC

(***************************************************************************)
(* Bounds                                                                  *)
(***************************************************************************)
MaxRetriesBound == 3
MaxFiles == 2

(***************************************************************************)
(* String helpers (JavaScript String methods used by the code)             *)
(***************************************************************************)
RECURSIVE CountChar(_, _)
CountChar(s, c) ==
  IF s = <<>> THEN 0
  ELSE (IF Head(s) = c THEN 1 ELSE 0) + CountChar(Tail(s), c)

IsWhitespace(c) == c \in {" ", "\n"}

RECURSIVE TrimStart(_)
TrimStart(s) ==
  IF s # <<>> /\ IsWhitespace(Head(s)) THEN TrimStart(Tail(s)) ELSE s

RECURSIVE TrimEnd(_)
TrimEnd(s) ==
  IF s # <<>> /\ IsWhitespace(s[Len(s)])
  THEN TrimEnd(SubSeq(s, 1, Len(s) - 1)) ELSE s

Trim(s) == TrimEnd(TrimStart(s))

EndsWith(s, suf) ==
  /\ Len(suf) <= Len(s)
  /\ SubSeq(s, Len(s) - Len(suf) + 1, Len(s)) = suf

Includes(s, sub) ==
  \E i \in 1..(Len(s) - Len(sub) + 1) : SubSeq(s, i, i + Len(sub) - 1) = sub

IndexOfChar(s, c) ==
  IF \E i \in 1..Len(s) : s[i] = c
  THEN CHOOSE i \in 1..Len(s) : s[i] = c /\ \A j \in 1..(i - 1) : s[j] # c
  ELSE 0

RECURSIVE Flatten(_)
Flatten(ss) == IF ss = <<>> THEN <<>> ELSE Head(ss) \o Flatten(Tail(ss))

RECURSIVE SeqToSet(_)
SeqToSet(s) == IF s = <<>> THEN {} ELSE {Head(s)} \cup SeqToSet(Tail(s))

(***************************************************************************)
(* File maps: a JavaScript object Record<string,string> keeps its keys in  *)
(* insertion order, so a file map is a sequence of [path, content] entries *)
(* with distinct paths.                                                    *)
(***************************************************************************)
PathApp == <<"A", "p", "p", ".", "t", "s">>
PathUtil == <<"u", ".", "t", "s">>
Paths == {PathApp, PathUtil}

ContentEmpty == <<>>
ContentBlank == <<" ">>
ContentOpen == <<"{">>
ContentBalanced == <<"{", "}">>
Contents == {ContentEmpty, ContentBlank, ContentOpen, ContentBalanced}

KeysOf(files) == {files[i].path : i \in 1..Len(files)}

HasKey(files, p) == p \in KeysOf(files)

Get(files, p) == files[CHOOSE i \in 1..Len(files) : files[i].path = p].content

Put(files, p, c) ==
  IF HasKey(files, p)
  THEN [i \in 1..Len(files) |->
          IF files[i].path = p THEN [path |-> p, content |-> c] ELSE files[i]]
  ELSE Append(files, [path |-> p, content |-> c])

FileMaps ==
  {f \in UNION {[1..n -> [path : Paths, content : Contents]] : n \in 1..MaxFiles} :
     \A i, j \in 1..Len(f) : f[i].path = f[j].path => i = j}

(***************************************************************************)
(* runBuild                                                                *)
(***************************************************************************)
MsgBraces == <<"b">>
MsgParens == <<"p">>
MsgHook == <<"h">>
MsgEmptyFile == <<"l">>

ErrorString(path, msg) == path \o <<":", " ">> \o msg

IsSourcePath(path) ==
  \/ EndsWith(path, <<".", "t", "s">>)
  \/ EndsWith(path, <<".", "t", "s", "x">>)
  \/ EndsWith(path, <<".", "j", "s">>)
  \/ EndsWith(path, <<".", "j", "s", "x">>)

\* Phase 1 for one file.  "U" stands for a React hook name in the content
\* and "R" for the text  from 'react'.
StaticErrors(path, content) ==
  IF ~IsSourcePath(path) THEN <<>>
  ELSE
    (IF CountChar(content, "U") > 0 /\ CountChar(content, "R") = 0
       THEN <<ErrorString(path, MsgHook)>> ELSE <<>>)
    \o (IF CountChar(content, "{") # CountChar(content, "}")
          THEN <<ErrorString(path, MsgBraces)>> ELSE <<>>)
    \o (IF CountChar(content, "(") # CountChar(content, ")")
          THEN <<ErrorString(path, MsgParens)>> ELSE <<>>)

\* (mutant) the content is not trimmed
StaticWarningsUntrimmed(path, content) ==
  IF Len(content) = 0 THEN <<ErrorString(path, MsgEmptyFile)>> ELSE <<>>

StaticWarnings(path, content) ==
  IF Len(Trim(content)) = 0 THEN <<ErrorString(path, MsgEmptyFile)>> ELSE <<>>

IsCriticalPath(path) ==
  \/ Includes(path, <<"A", "p", "p">>)
  \/ Includes(path, <<"i", "n", "d", "e", "x">>)
  \/ Includes(path, <<"m", "a", "i", "n">>)
  \/ Includes(path, <<"c", "o", "m", "p", "o", "n", "e", "n", "t">>)

RECURSIVE SelectSeq2(_, _)
SelectSeq2(files, n) ==
  IF n = 0 \/ files = <<>> THEN <<>>
  ELSE <<Head(files)>> \o SelectSeq2(Tail(files), n - 1)

MaxAIFiles == 5

\* Object.entries(projectFiles).filter(critical).slice(0, 5)
CriticalFiles(files) ==
  SelectSeq2(SelectSeq(files, LAMBDA e : IsCriticalPath(e.path)), MaxAIFiles)

\* What analyzeCodeWithAI can return for one file: the lists come from the
\* model's JSON answer (empty when no model is configured or the call
\* fails).  A message is any string, also one with a line break.
AiMsgPlain == <<"e">>
AiMsgTwoLines == <<"e", "\n", "f">>
AiNothing == [errors |-> <<>>, warnings |-> <<>>, suggestions |-> 0]
AiOutcomes ==
  { AiNothing,
    [errors |-> <<AiMsgPlain>>, warnings |-> <<>>, suggestions |-> 1],
    [errors |-> <<AiMsgTwoLines>>, warnings |-> <<AiMsgPlain>>, suggestions |-> 0] }

AiAnswers(files) == [KeysOf(CriticalFiles(files)) -> AiOutcomes]

MapSeq(s, Op(_)) == [i \in 1..Len(s) |-> Op(s[i])]

runBuild(files, ai) ==
  LET crit == CriticalFiles(files)
      staticErrs == Flatten(MapSeq(files, LAMBDA e : StaticErrors(e.path, e.content)))
      staticWarns == Flatten(MapSeq(files, LAMBDA e : StaticWarnings(e.path, e.content)))
      aiErrs == Flatten(MapSeq(crit, LAMBDA e :
                  MapSeq(ai[e.path].errors, LAMBDA m : ErrorString(e.path, m))))
      aiWarns == Flatten(MapSeq(crit, LAMBDA e :
                  MapSeq(ai[e.path].warnings, LAMBDA m : ErrorString(e.path, m))))
      opts == Flatten(MapSeq(crit, LAMBDA e :
                  IF ai[e.path].suggestions > 0
                  THEN << <<"suggest", e.path, ai[e.path].suggestions>> >>
                  ELSE <<>>))
      errs == staticErrs \o aiErrs
      warns == staticWarns \o aiWarns
  IN IF Len(errs) > 0
     THEN [success |-> FALSE, errors |-> errs, warnings |-> warns,
           fixed |-> FALSE, optimizations |-> <<>>]
     ELSE [success |-> TRUE, errors |-> <<>>, warnings |-> warns,
           fixed |-> FALSE, optimizations |-> opts]

(***************************************************************************)
(* autoFixBuild                                                            *)
(***************************************************************************)
\* error.match(/^([^:]+):\s*(.+)$/): the file is the non-empty text before
\* the first colon; after the colon, leading whitespace is skipped and the
\* rest, up to the end of the string, must be non-empty and free of line
\* breaks ('.' does not match a line break, '$' only matches at the end).
ErrorMatch(e) ==
  LET i == IndexOfChar(e, ":")
      rest == SubSeq(e, i + 1, Len(e))
      Splits == {k \in 0..(Len(rest) - 1) :
                   /\ \A j \in 1..k : IsWhitespace(rest[j])
                   /\ \A j \in (k + 1)..Len(rest) : rest[j] # "\n"}
  IN IF i <= 1 \/ Splits = {}
     THEN [ok |-> FALSE, file |-> <<>>, message |-> <<>>]
     ELSE LET k == CHOOSE k \in Splits : \A m \in Splits : m <= k
          IN [ok |-> TRUE, file |-> SubSeq(e, 1, i - 1),
              message |-> SubSeq(rest, k + 1, Len(rest))]

\* errorsByFile, in insertion order
RECURSIVE GroupErrors(_, _)
GroupErrors(errors, acc) ==
  IF errors = <<>> THEN acc
  ELSE LET m == ErrorMatch(Head(errors))
           known == \E i \in 1..Len(acc) : acc[i].file = m.file
           acc2 == IF ~m.ok THEN acc
                   ELSE IF known
                   THEN [i \in 1..Len(acc) |->
                           IF acc[i].file = m.file
                           THEN [acc[i] EXCEPT !.messages = Append(@, m.message)]
                           ELSE acc[i]]
                   ELSE Append(acc, [file |-> m.file, messages |-> <<m.message>>])
       IN GroupErrors(Tail(errors), acc2)

\* QAAgent.fixCode: the code itself when there is no issue, no model is
\* configured or the model call fails; otherwise the trimmed answer.
FixResponses == {<<" ">>, <<"{">>, <<"{", "}", " ">>}
FixUnchanged == [kind |-> "unchanged", text |-> <<>>]
FixOutcomes == {FixUnchanged} \cup {[kind |-> "answer", text |-> t] : t \in FixResponses}

fixCode(code, issues, outcome) ==
  IF Len(issues) = 0 THEN code
  ELSE IF outcome.kind = "unchanged" THEN code
  ELSE Trim(outcome.text)

\* JavaScript truthiness of fixedFiles[filePath]
Truthy(files, p) == HasKey(files, p) /\ Get(files, p) # <<>>

RECURSIVE FixLoop(_, _, _)
FixLoop(entries, fx, acc) ==
  IF entries = <<>> THEN acc
  ELSE LET en == Head(entries)
           asErrors == MapSeq(en.messages, LAMBDA m : ErrorString(en.file, m))
           acc2 ==
             IF ~Truthy(acc.fixedFiles, en.file)
             THEN [acc EXCEPT !.remainingErrors = @ \o asErrors]
             ELSE LET out == fixCode(Get(acc.fixedFiles, en.file), en.messages, fx[en.file])
                  IN [acc EXCEPT
                        !.fixedFiles = Put(@, en.file, out),
                        !.optimizations = Append(@, <<"fixed", en.file, Len(en.messages)>>),
                        !.handed = Append(@, [path |-> en.file, output |-> out])]
       IN FixLoop(Tail(entries), fx, acc2)

FixAnswers(buildErrors) ==
  [{g.file : g \in SeqToSet(GroupErrors(buildErrors, <<>>))} -> FixOutcomes]

autoFixBuild(files, buildErrors, fx) ==
  LET r == FixLoop(GroupErrors(buildErrors, <<>>), fx,
                   [fixedFiles |-> files, remainingErrors |-> <<>>,
                    optimizations |-> <<>>, handed |-> <<>>])
  IN [fixed |-> Len(r.remainingErrors) = 0,
      fixedFiles |-> r.fixedFiles,
      remainingErrors |-> r.remainingErrors,
      optimizations |-> r.optimizations,
      handed |-> r.handed]

(***************************************************************************)
(* runCICDPipeline                                                         *)
(***************************************************************************)
VARIABLES
  pPc,            \* "idle", "build" (awaiting runBuild), "fix" (awaiting autoFixBuild), "done"
  pMaxRetries,    \* maxRetries
  pAttempt,       \* attempt
  pCurrentFiles,  \* currentFiles
  pAllOpts,       \* allOptimizations
  pBuildResult,   \* buildResult of the last cycle
  pBuildInput,    \* the file map the last runBuild call was given
  pResult,        \* the returned BuildResult
  pExit,          \* which return statement produced pResult
  pBuilds,        \* number of runBuild calls of this run
  pFixes,         \* number of autoFixBuild calls of this run
  pCleanBuilds,   \* number of runBuild calls of this run that found zero errors
  pLastFix,       \* arguments and result of the last autoFixBuild call
  pProjectFiles,  \* projectFiles, the argument of this run
  pRepeat         \* this run was given the file map that the run before it was
                  \* given and has analysed

pipeVars == <<pPc, pMaxRetries, pAttempt, pCurrentFiles, pAllOpts, pBuildResult,
              pBuildInput, pResult, pExit, pBuilds, pFixes, pCleanBuilds, pLastFix,
              pProjectFiles, pRepeat>>

\* the project of the second version of index.tsx (Part 2)
VARIABLES
  oPc,            \* the callAgent call orchestrate awaits: "idle" when none
  isProcessing,   \* isProcessing
  currentAgent,   \* currentAgent ("none" for null)
  project,        \* project.files
  logs,           \* the terminal log: <<source, type, text>> entries
  lastMessage,    \* the last chat message appended by orchestrate
  now,            \* Date.now()
  oRequests,      \* number of requests submitted so far
  oTrace,         \* the agents made current during this request, in order
  oStatus,        \* how the last request ended: "none", "Success", "Failed"
  oArtifacts,     \* paths of the nodes this request added to the tree
  oFilesAtStart,  \* project.files when this request started
  oRepairs,       \* number of JSON-repair calls of this request
  conceptMd       \* conceptMd, the planner's answer of this request

orchVars == <<oPc, isProcessing, currentAgent, project, logs, lastMessage, now,
              oRequests, oTrace, oStatus, oArtifacts, oFilesAtStart, oRepairs, conceptMd>>


\* the workspace of the first version of index.tsx (Part 3)
VARIABLES
  cPc,                \* per request of handleSendMessage: "none", an awaited call
                      \* ("await_..."), "blocked" (at a checkpoint), "thrown", "beyond"
  cNext,              \* per request: the checkpoint it is blocked at
  cNeedsDb,           \* per request: whether the message asks for a backend
  cError,             \* per request: the message of the exception thrown
  cStarted,           \* number of requests started
  abortControllerRef, \* abortControllerRef.current: the request whose controller it is, 0 for null
  aborted,            \* per controller: signal.aborted
  pauseResolverRef,   \* pauseResolverRef.current: the request whose promise it resolves, 0 for null
  isPausedRef,        \* isPausedRef.current
  isPaused,           \* isPaused
  agentStep,          \* agentStep
  cTree,              \* project.files
  aiReady,            \* aiRef.current is set
  cPausePending,      \* pause was requested, and neither resume nor stop since
  cStopped            \* per request: stop was requested while it was running

chatVars == <<cPc, cNext, cNeedsDb, cError, cStarted, abortControllerRef, aborted,
              pauseResolverRef, isPausedRef, isPaused, agentStep, cTree, aiReady,
              cPausePending, cStopped>>

\* the model router, the stored keys and the agent pipeline (Part 4)
VARIABLES
  apiKeys,        \* the keys in localStorage, "" for a provider without one
  clients,        \* the providers whose client the router has created
  bPc,            \* "idle" or "await" (a stage awaits its model call)
  bStage,         \* index of the running stage
  bStatus,        \* how the last request ended: "none", "Success", "Failed"
  bError,         \* the message of the failed result
  bTrace,         \* the stages started by this request, in order
  bBrain,         \* the brain files this request has written
  bKeysAtStart,   \* apiKeys when this request started
  bRequests       \* number of requests started

boardVars == <<apiKeys, clients, bPc, bStage, bStatus, bError, bTrace, bBrain,
               bKeysAtStart, bRequests>>

\* one call of ModelRouter.callModel (Part 5)
VARIABLES
  mPc,            \* "idle", "await_provider" or "sleep"
  mProvider,      \* config.provider of the call
  mMaxRetries,    \* the maxRetries argument
  mAttempt,       \* the loop variable attempt
  mLastError,     \* lastError: [defined, message]
  mCalls,         \* provider calls made by this call of callModel
  mErrors,        \* the messages of the errors caught so far, in order
  mSleeps,        \* the delays of the timers set so far, in order, in ms
  mOutcome        \* how the call ended: [kind, text], kind "none" while it runs

callVars == <<mPc, mProvider, mMaxRetries, mAttempt, mLastError, mCalls, mErrors,
              mSleeps, mOutcome>>

\* the PerformanceOptimizer and its clock (Part 6)
VARIABLES
  cache,          \* this.cache: the entries [fileHash, result, timestamp] in insertion order
  cacheNow,       \* Date.now()
  cacheOp,        \* the method called last: "none", "get", "set", "clear"
  cacheReturned,  \* what the last getCachedResult returned: [hit, result, age];
                  \* age is the age of the entry it found, -1 when it found none
  hashedFiles,    \* the argument of the last hashProjectFiles call
  hashedKey       \* what that call returned

cacheVars == <<cache, cacheNow, cacheOp, cacheReturned, hashedFiles, hashedKey>>

\* calls of the functions of lib/jsonParser.ts (Part 7)
VARIABLES
  jOp,            \* the function called last: "none", "extract" or "parse"
  jText,          \* the argument text
  jEmbedded,      \* the JSON object that was put into text, <<>> when none was
  jExtracted,     \* what extractJSON(text) returned
  jFields,        \* the argument requiredFields
  jFallback,      \* the argument fallback
  jParsed,        \* what JSON.parse made of the extracted text: [ok, v]
  jOutcome        \* how parseJSONFromText ended: [kind, value]

jsonVars == <<jOp, jText, jEmbedded, jExtracted, jFields, jFallback, jParsed, jOutcome>>

VARIABLES
  projectBrain,          \* the rows of project_brain, in the order of their insertion
  sPc,            \* where searchBrain is: "idle", "embedding", "rpc", "fallback", "done"
  sProject,       \* the argument projectId
  sQuery,         \* the argument query
  sLimit,         \* the argument limit
  sRaised,        \* the similarity path has failed in this call
  sFallbackError, \* the text-search query came back with an error
  sOutcome        \* how searchBrain ended: [kind, value]

brainVars == <<projectBrain, sPc, sProject, sQuery, sLimit, sRaised, sFallbackError,
               sOutcome>>

VARIABLES
  rPc,            \* where reviewCode is: "idle", "await" (callModel) or "done"
  rCode,          \* the argument code
  rFilePath,      \* the argument filePath
  rResponse,      \* response.content, <<>> when there was no response
  rVia,           \* what made the review: "none", "model" or "check"
  rReview         \* the CodeReview returned

reviewVars == <<rPc, rCode, rFilePath, rResponse, rVia, rReview>>

VARIABLES
  dPc,            \* where createDesignSystem is: "idle", "await" (callModel) or "done"
  dResponse,      \* response.content, <<>> when there was no response
  dVia,           \* what made the design system: "none", "model" or "default"
  dSystem,        \* the DesignSystem returned
  vInput,         \* the argument of validateDesignSystem, called on its own
  vOutput         \* what it returned

designVars == <<dPc, dResponse, dVia, dSystem, vInput, vOutput>>

\* the AI analysis phase of one runBuild call, step by step (Part 11)
VARIABLES
  aPc,            \* "idle", "batch" (awaiting Promise.all of a batch), "done"
  aFiles,         \* projectFiles of the call
  aIndex,         \* i of the batch loop, counted from 1
  aInFlight,      \* paths whose analyzer was called and has not settled
  aAnswers,       \* path -> what analyzeCodeWithAI gave, for settled analyzers
  aOptimizations, \* optimizations, in the order the analyzers pushed them
  aResult         \* the BuildResult returned

analyzeVars == <<aPc, aFiles, aIndex, aInFlight, aAnswers, aOptimizations, aResult>>

\* the CI/CD monitor (Part 12)
VARIABLES
  monActive,           \* status.active
  monEnabled,          \* config.enabled
  monNotifyOnError,    \* config.notifyOnError
  monIntervalId,       \* TRUE when intervalId holds a running interval
  monGetter,           \* TRUE when projectFilesGetter is registered
  monOnBuildResult,    \* this.onBuildResult: "none" for null, else what a call of it does
  monTotalChecks,      \* status.totalChecks
  monSuccessfulBuilds, \* status.successfulBuilds
  monFailedBuilds,     \* status.failedBuilds
  monLastResult,       \* status.lastResult: "none", "success" or "failure"
  monInFlight,         \* performCheck calls awaiting runCICDPipeline
  monCallbacks,        \* calls of onBuildResult made so far
  monManual            \* manualCheck calls awaiting runCICDPipeline

monVars == <<monActive, monEnabled, monNotifyOnError, monIntervalId, monGetter,
             monOnBuildResult, monTotalChecks, monSuccessfulBuilds, monFailedBuilds,
             monLastResult, monInFlight, monCallbacks, monManual>>

\* saveBrainEntry and generateEmbedding, step by step (Part 13)
VARIABLES
  openaiClient,   \* generator.ts openaiClient: TRUE when created
  geminiClient,   \* generator.ts geminiClient: TRUE when created
  kPc,            \* where the save is: "idle", "openai", "gemini", "insert", "done"
  kArgs,          \* the arguments of the saveBrainEntry call
  kEmbedding,     \* what made the embedding: "none", "openai", "gemini", "placeholder"
  kRows,          \* the rows this part has inserted into project_brain
  kReturned       \* what saveBrainEntry returned: "none", "null" or "data"

saveVars == <<openaiClient, geminiClient, kPc, kArgs, kEmbedding, kRows, kReturned>>

Absent == [defined |-> FALSE, value |-> <<>>]
Present(v) == [defined |-> TRUE, value |-> v]
NonEmptyOrAbsent(s) == IF Len(s) > 0 THEN Present(s) ELSE Absent

NoBuildResult == [success |-> FALSE, errors |-> <<>>, warnings |-> <<>>,
                  fixed |-> FALSE, optimizations |-> <<>>]
NoResult == [success |-> FALSE, errors |-> <<>>, warnings |-> <<>>, fixed |-> FALSE,
             fixedFiles |-> Absent, optimizations |-> Absent]
NoFix == [called |-> FALSE, files |-> <<>>, errors |-> <<>>, fixed |-> FALSE,
          remainingErrors |-> <<>>, handed |-> <<>>]

PipeInit ==
  /\ pPc = "idle"
  /\ pMaxRetries = 0
  /\ pAttempt = 0
  /\ pCurrentFiles = <<>>
  /\ pAllOpts = <<>>
  /\ pBuildResult = NoBuildResult
  /\ pBuildInput = <<>>
  /\ pResult = NoResult
  /\ pExit = "none"
  /\ pBuilds = 0
  /\ pFixes = 0
  /\ pCleanBuilds = 0
  /\ pLastFix = NoFix
  /\ pProjectFiles = <<>>
  /\ pRepeat = FALSE

\* (mutant) the loop gives up one cycle early
LoopGuardShort(attempt, maxRetries) == attempt + 1 < maxRetries

\* while (attempt < maxRetries)
LoopGuard(attempt, maxRetries) == attempt < maxRetries

\* (mutant) an auto-fix round also after the last cycle
RetriesRemainAlways(attempt, maxRetries) == attempt <= maxRetries

\* if (attempt < maxRetries) before the auto-fix
RetriesRemain(attempt, maxRetries) == attempt < maxRetries

\* the return after the loop
ExhaustedResult(files, allOpts) ==
  [success |-> FALSE, errors |-> <<>>, warnings |-> <<>>, fixed |-> FALSE,
   fixedFiles |-> Present(files), optimizations |-> NonEmptyOrAbsent(allOpts)]

\* the return inside  if (buildResult.success)
SuccessResult(br, attempt, files, allOpts) ==
  [success |-> TRUE, errors |-> br.errors, warnings |-> br.warnings,
   fixed |-> attempt > 1,
   fixedFiles |-> IF attempt > 1 THEN Present(files) ELSE Absent,
   optimizations |-> IF Len(allOpts) > 0 THEN Present(allOpts)
                     ELSE NonEmptyOrAbsent(br.optimizations)]

\* the return in the  else  branch of  if (fixResult.fixed)
UnfixableResult(br, fr, allOpts) ==
  [success |-> FALSE, errors |-> fr.remainingErrors, warnings |-> br.warnings,
   fixed |-> FALSE, fixedFiles |-> Present(fr.fixedFiles),
   optimizations |-> NonEmptyOrAbsent(allOpts)]

\* Back at the loop head with the given attempt, files and notes.
LoopHead(attempt, files, allOpts) ==
  IF LoopGuard(attempt, pMaxRetries)
  THEN /\ pPc' = "build"
       /\ UNCHANGED <<pResult, pExit>>
  ELSE /\ pPc' = "done"
       /\ pResult' = ExhaustedResult(files, allOpts)
       /\ pExit' = "exhausted"

pStart ==
  /\ UNCHANGED <<orchVars, chatVars, boardVars, callVars, cacheVars, jsonVars, brainVars, reviewVars, designVars, analyzeVars, monVars, saveVars>>
  /\ pPc = "idle"
  /\ \E files \in FileMaps, n \in 0..MaxRetriesBound :
       /\ pMaxRetries' = n
       /\ pCurrentFiles' = files
       /\ pAttempt' = 0
       /\ pAllOpts' = <<>>
       /\ pBuildResult' = NoBuildResult
       /\ pBuildInput' = <<>>
       /\ pBuilds' = 0
       /\ pFixes' = 0
       /\ pCleanBuilds' = 0
       /\ pLastFix' = NoFix
       /\ pProjectFiles' = files
       /\ pRepeat' = (pExit # "none" /\ pBuilds > 0 /\ files = pProjectFiles)
       /\ IF LoopGuard(0, n)
          THEN pPc' = "build" /\ pResult' = NoResult /\ pExit' = "none"
          ELSE /\ pPc' = "done"
               /\ pResult' = ExhaustedResult(files, <<>>)
               /\ pExit' = "exhausted"

\* attempt++; buildResult = await runBuild(currentFiles); then up to the
\* next await or return
pRunBuild ==
  /\ UNCHANGED <<orchVars, chatVars, boardVars, callVars, cacheVars, jsonVars, brainVars, reviewVars, designVars, analyzeVars, monVars, saveVars>>
  /\ pPc = "build"
  /\ \E ai \in AiAnswers(pCurrentFiles) :
       LET br == runBuild(pCurrentFiles, ai)
           attempt == pAttempt + 1
       IN /\ pAttempt' = attempt
          /\ pBuildResult' = br
          /\ pBuildInput' = pCurrentFiles
          /\ pBuilds' = pBuilds + 1
          /\ pCleanBuilds' = pCleanBuilds + (IF Len(br.errors) = 0 THEN 1 ELSE 0)
          /\ UNCHANGED <<pMaxRetries, pCurrentFiles, pAllOpts, pFixes, pLastFix,
                         pProjectFiles, pRepeat>>
          /\ IF br.success
             THEN /\ pPc' = "done"
                  /\ pResult' = SuccessResult(br, attempt, pCurrentFiles, pAllOpts)
                  /\ pExit' = "success"
             ELSE IF RetriesRemain(attempt, pMaxRetries)
             THEN /\ pPc' = "fix"
                  /\ UNCHANGED <<pResult, pExit>>
             ELSE LoopHead(attempt, pCurrentFiles, pAllOpts)

\* fixResult = await autoFixBuild(currentFiles, buildResult.errors); then up
\* to the next await or return
pAutoFix ==
  /\ UNCHANGED <<orchVars, chatVars, boardVars, callVars, cacheVars, jsonVars, brainVars, reviewVars, designVars, analyzeVars, monVars, saveVars>>
  /\ pPc = "fix"
  /\ \E fx \in FixAnswers(pBuildResult.errors) :
       LET fr == autoFixBuild(pCurrentFiles, pBuildResult.errors, fx)
           allOpts == pAllOpts \o fr.optimizations
       IN /\ pCurrentFiles' = fr.fixedFiles
          /\ pAllOpts' = allOpts
          /\ pFixes' = pFixes + 1
          /\ pLastFix' = [called |-> TRUE, files |-> pCurrentFiles,
                          errors |-> pBuildResult.errors, fixed |-> fr.fixed,
                          remainingErrors |-> fr.remainingErrors,
                          handed |-> fr.handed]
          /\ UNCHANGED <<pMaxRetries, pAttempt, pBuildResult, pBuildInput, pBuilds,
                         pCleanBuilds, pProjectFiles, pRepeat>>
          /\ IF fr.fixed
             THEN LoopHead(pAttempt, fr.fixedFiles, allOpts)
             ELSE /\ pPc' = "done"
                  /\ pResult' = UnfixableResult(pBuildResult, fr, allOpts)
                  /\ pExit' = "unfixable"

\* the caller takes the result; the next call may start
pReturn ==
  /\ UNCHANGED <<orchVars, chatVars, boardVars, callVars, cacheVars, jsonVars, brainVars, reviewVars, designVars, analyzeVars, monVars, saveVars>>
  /\ pPc = "done"
  /\ pPc' = "idle"
  /\ UNCHANGED <<pMaxRetries, pAttempt, pCurrentFiles, pAllOpts, pBuildResult,
                 pBuildInput, pResult, pExit, pBuilds, pFixes, pCleanBuilds, pLastFix,
                 pProjectFiles, pRepeat>>

PipeNext == pStart \/ pRunBuild \/ pAutoFix \/ pReturn

(***************************************************************************)
(* Part 2  the project file tree and  orchestrate  (index.tsx, AgentSystem) *)
(*                                                                         *)
(* A path is the sequence of its '/'-separated segments.  The tree is kept *)
(* flat: a function from the path of each node to its type and content.    *)
(***************************************************************************)
MaxClock == 2
MaxRequests == 2

\* the segment names of the model that contain no '.'
PlainSegments == {"src", "brain", "lib", "components"}

\* parentPath.includes('.')
HasDot(path) == \E i \in 1..Len(path) : path[i] \notin PlainSegments

FolderNode == [type |-> "folder", content |-> ""]
FileNode(content) == [type |-> "file", content |-> content]

INITIAL_FILES ==
  ( <<"src">> :> FolderNode
    @@ <<"src", "brain">> :> FolderNode
    @@ <<"src", "brain", "read_me.md">> :> FileNode("init")
    @@ <<"src", "App.tsx">> :> FileNode("init")
    @@ <<"src", "index.css">> :> FileNode("init")
    @@ <<"src", "lib">> :> FolderNode
    @@ <<"src", "lib", "supabase.ts">> :> FileNode("init")
    @@ <<"package.json">> :> FileNode("init")
    @@ <<"index.html">> :> FileNode("init") )

\* nodes.map(node => node.path === path ? updater(node) : ...): nothing
\* changes when no node has the path
updateNodeByPath(tree, path, content) ==
  [q \in DOMAIN tree |-> IF q = path THEN [tree[q] EXCEPT !.content = content] ELSE tree[q]]

\* a folder node for every prefix of parts that is not a folder yet
ensureFolderExists(tree, parts) ==
  LET missing == {SubSeq(parts, 1, k) : k \in 1..Len(parts)} \ DOMAIN tree
  IN tree @@ [q \in missing |-> FolderNode]

\* the node becomes a child of the node at targetPath, replacing a child
\* with the same path; at the root when targetPath is ''
addNodeToTarget(tree, targetPath, newPath, newNode) ==
  IF targetPath = <<>> \/ targetPath \in DOMAIN tree
  THEN (newPath :> newNode) @@ tree
  ELSE tree

NewFileName(t) == "new-file-" \o ToString(t) \o ".tsx"

\* createNode(parentPath, 'file', content) at time t: the new file is
\* named after the clock, inside parentPath or, when parentPath contains a
\* '.', inside its parent
TargetPath(parentPath) ==
  IF HasDot(parentPath) THEN SubSeq(parentPath, 1, Len(parentPath) - 1) ELSE parentPath

createNode(tree, parentPath, content, t) ==
  LET targetPath == TargetPath(parentPath)
      newPath == Append(targetPath, NewFileName(t))
  IN addNodeToTarget(ensureFolderExists(tree, targetPath), targetPath, newPath,
                     FileNode(content))

updateFileContent(tree, path, content) == updateNodeByPath(tree, path, content)

PathBrain == <<"src", "brain">>
PathConcept == <<"src", "brain", "concept.md">>
PathDesign == <<"src", "brain", "design.json">>

\* callAgent returns response.text || "" or rethrows the provider's error
Texts == {"", "text"}
AgentReturns == [kind : {"text"}, text : Texts]
AgentThrows == [kind |-> "throw", text |-> "provider error"]
AgentOutcomes == AgentReturns \cup {AgentThrows}

\* What JSON.parse(cleanJson(response)) gives for the coder's (or the JSON
\* fixer's) answer: a SyntaxError, or a value.  A value that is an array is
\* a list of items; an item without a path makes file.path.includes throw;
\* a value that is no array is not iterable.
GenApp == [path |-> <<"src", "App.tsx">>, content |-> "gen", hasPath |-> TRUE]
GenHeader == [path |-> <<"src", "components", "Header.tsx">>, content |-> "gen", hasPath |-> TRUE]
GenFooter == [path |-> <<"src", "components", "Footer.tsx">>, content |-> "gen2", hasPath |-> TRUE]
GenPackage == [path |-> <<"package.json">>, content |-> "gen", hasPath |-> TRUE]
GenNoPath == [path |-> <<>>, content |-> "gen", hasPath |-> FALSE]
GenLists == { <<>>, <<GenApp>>, <<GenHeader, GenFooter>>, <<GenPackage>>, <<GenHeader, GenNoPath>> }
ParsedValues ==
  {[kind |-> "array", items |-> l] : l \in GenLists}
    \cup {[kind |-> "object", items |-> <<>>], [kind |-> "syntaxError", items |-> <<>>]}

OrchInit ==
  /\ oPc = "idle"
  /\ isProcessing = FALSE
  /\ currentAgent = "none"
  /\ project = INITIAL_FILES
  /\ logs = <<>>
  /\ lastMessage = [role |-> "none", text |-> ""]
  /\ now = 0
  /\ oRequests = 0
  /\ oTrace = <<>>
  /\ oStatus = "none"
  /\ oArtifacts = {}
  /\ oFilesAtStart = INITIAL_FILES
  /\ oRepairs = 0
  /\ conceptMd = ""

\* the agent each step of orchestrate makes current
AgentFirst == "prompt_expert"
AgentAfterExpert == "planner"
AgentAfterConcept == "creative"
\* (mutant) the reviewer is made current before the coder has run
AgentAfterDesignSkipsCoder == "reviewer"
AgentAfterDesign == "coder"
AgentAfterCode == "reviewer"

\* the catch block leaves project.files as the failing stage left it
\* (mutant) the catch block restores the tree of the start of the request
FilesAfterCatchRollback(filesNow, filesAtStart) == filesAtStart

FilesAfterCatch(filesNow, filesAtStart) == filesNow

\* catch (error) { addLog(...); setMessages(...) } finally { ... }
OrchCatch(message, filesNow, logsNow, trace, artifacts) ==
  /\ logs' = Append(logsNow, <<"System", "error", "Kritischer Fehler: " \o message>>)
  /\ lastMessage' = [role |-> "model", text |-> "Fehler: " \o message]
  /\ project' = FilesAfterCatch(filesNow, oFilesAtStart)
  /\ isProcessing' = FALSE
  /\ currentAgent' = "none"
  /\ oPc' = "idle"
  /\ oStatus' = "Failed"
  /\ oTrace' = trace
  /\ oArtifacts' = artifacts

\* the button's onClick and the textarea's Enter key: orchestrate(input) up
\* to its first await
oSubmit ==
  /\ UNCHANGED <<pipeVars, chatVars, boardVars, callVars, cacheVars, jsonVars, brainVars, reviewVars, designVars, analyzeVars, monVars, saveVars>>
  /\ ~isProcessing
  /\ oRequests < MaxRequests
  /\ oRequests' = oRequests + 1
  /\ isProcessing' = TRUE
  /\ lastMessage' = [role |-> "user", text |-> "input"]
  /\ currentAgent' = AgentFirst
  /\ oTrace' = <<AgentFirst>>
  /\ logs' = Append(logs, <<"Prompt Expert", "agent", "">>)
  /\ oPc' = "await_expert"
  /\ oStatus' = "none"
  /\ oArtifacts' = {}
  /\ oFilesAtStart' = project
  /\ oRepairs' = 0
  /\ conceptMd' = ""
  /\ UNCHANGED <<project, now>>

\* Step 1 returns; Step 2 up to its await
oExpertReturns ==
  /\ UNCHANGED <<pipeVars, chatVars, boardVars, callVars, cacheVars, jsonVars, brainVars, reviewVars, designVars, analyzeVars, monVars, saveVars>>
  /\ oPc = "await_expert"
  /\ \E r \in AgentOutcomes :
       IF r.kind = "throw"
       THEN /\ OrchCatch(r.text, project, logs, oTrace, oArtifacts)
            /\ UNCHANGED <<now, oRequests, oFilesAtStart, oRepairs, conceptMd>>
       ELSE /\ logs' = logs \o << <<"Prompt Expert", "success", "">>, <<"CPO", "agent", "">> >>
            /\ currentAgent' = AgentAfterExpert
            /\ oTrace' = Append(oTrace, AgentAfterExpert)
            /\ oPc' = "await_concept"
            /\ UNCHANGED <<isProcessing, project, lastMessage, now, oRequests, oStatus,
                           oArtifacts, oFilesAtStart, oRepairs, conceptMd>>

DesignJson == "design"

\* the concept returns: createNode('src/brain', 'file', ''), the two
\* updateFileContent calls, Step 3 (no await) and Step 4 up to its await
oConceptReturns ==
  /\ UNCHANGED <<pipeVars, chatVars, boardVars, callVars, cacheVars, jsonVars, brainVars, reviewVars, designVars, analyzeVars, monVars, saveVars>>
  /\ oPc = "await_concept"
  /\ \E r \in AgentOutcomes :
       IF r.kind = "throw"
       THEN /\ OrchCatch(r.text, project, logs, oTrace, oArtifacts)
            /\ UNCHANGED <<now, oRequests, oFilesAtStart, oRepairs, conceptMd>>
       ELSE LET t1 == createNode(project, PathBrain, "", now)
                t2 == updateFileContent(t1, PathConcept, r.text)
                t3 == updateFileContent(t2, PathDesign, DesignJson)
            IN /\ project' = t3
               /\ oArtifacts' = oArtifacts \cup {Append(PathBrain, NewFileName(now))}
               /\ logs' = logs \o << <<"CPO", "success", "">>, <<"Creative Dir", "agent", "">>,
                                     <<"Architect", "agent", "">> >>
               /\ currentAgent' = AgentAfterDesign
               /\ oTrace' = oTrace \o <<AgentAfterConcept, AgentAfterDesign>>
               /\ oPc' = "await_code"
               /\ conceptMd' = r.text
               /\ UNCHANGED <<isProcessing, lastMessage, now, oRequests, oStatus,
                              oFilesAtStart, oRepairs>>

\* for (const file of filesToCreate): the tree, the paths added and the
\* number of items applied before an item without a path stops the loop
RECURSIVE ApplyFiles(_, _, _)
ApplyFiles(items, acc, t) ==
  IF items = <<>> \/ ~Head(items).hasPath THEN [acc EXCEPT !.completed = (items = <<>>)]
  ELSE LET f == Head(items)
           acc2 == IF Len(f.path) > 1
                   THEN [acc EXCEPT
                           !.tree = createNode(@, f.path, f.content, t),
                           !.added = @ \cup {Append(TargetPath(f.path), NewFileName(t))},
                           !.applied = @ + 1]
                   ELSE [acc EXCEPT
                           !.tree = updateFileContent(@, f.path, f.content),
                           !.applied = @ + 1]
       IN ApplyFiles(Tail(items), acc2, t)

\* Step 5 with a parsed value: the reviewer is made current and the files
\* are applied; the request ends in success, or in the catch block when the
\* value is not iterable or an item has no path
OrchReview(value, t) ==
  LET trace == Append(oTrace, AgentAfterCode)
      logs1 == Append(logs, <<"Reviewer", "agent", "">>)
  IN IF value.kind # "array"
     THEN OrchCatch("filesToCreate is not iterable", project, logs1, trace, oArtifacts)
     ELSE LET r == ApplyFiles(value.items,
                     [tree |-> project, added |-> {}, applied |-> 0, completed |-> FALSE], t)
              logs2 == logs1 \o [i \in 1..r.applied |-> <<"System", "info", "Datei erstellt">>]
          IN IF ~r.completed
             THEN OrchCatch("Cannot read properties of undefined", r.tree, logs2, trace,
                            oArtifacts \cup r.added)
             ELSE /\ project' = r.tree
                  /\ oArtifacts' = oArtifacts \cup r.added
                  /\ logs' = Append(logs2, <<"Orchestrator", "success", "">>)
                  /\ lastMessage' = [role |-> "model", text |-> "success"]
                  /\ isProcessing' = FALSE
                  /\ currentAgent' = "none"
                  /\ oPc' = "idle"
                  /\ oStatus' = "Success"
                  /\ oTrace' = trace

\* the coder's answer returns: parse it, start the JSON fixer when it does
\* not parse, else Step 5
oCodeReturns ==
  /\ UNCHANGED <<pipeVars, chatVars, boardVars, callVars, cacheVars, jsonVars, brainVars, reviewVars, designVars, analyzeVars, monVars, saveVars>>
  /\ oPc = "await_code"
  /\ \/ /\ OrchCatch(AgentThrows.text, project, logs, oTrace, oArtifacts)
        /\ UNCHANGED <<now, oRequests, oFilesAtStart, oRepairs, conceptMd>>
     \/ \E v \in ParsedValues :
          IF v.kind = "syntaxError"
          THEN /\ logs' = Append(logs, <<"Architect", "error", "JSON Parsing fehlgeschlagen">>)
               /\ oPc' = "await_fix"
               /\ oRepairs' = oRepairs + 1
               /\ UNCHANGED conceptMd
               /\ UNCHANGED <<isProcessing, currentAgent, project, lastMessage, now,
                              oRequests, oTrace, oStatus, oArtifacts, oFilesAtStart>>
          ELSE /\ OrchReview(v, now)
               /\ UNCHANGED <<now, oRequests, oFilesAtStart, oRepairs, conceptMd>>

\* the JSON fixer's answer returns: a second parse failure is thrown to the
\* catch block
\* (mutant) a second parse failure starts the JSON fixer again
oFixReturnsRepairsAgain ==
  /\ UNCHANGED <<pipeVars, chatVars, boardVars, callVars, cacheVars, jsonVars, brainVars, reviewVars, designVars, analyzeVars, monVars, saveVars>>
  /\ oPc = "await_fix"
  /\ \/ /\ OrchCatch(AgentThrows.text, project, logs, oTrace, oArtifacts)
        /\ UNCHANGED <<now, oRequests, oFilesAtStart, oRepairs, conceptMd>>
     \/ \E v \in ParsedValues :
          IF v.kind = "syntaxError" /\ oRepairs < 2
          THEN /\ oRepairs' = oRepairs + 1
               /\ UNCHANGED <<oPc, isProcessing, currentAgent, project, logs, lastMessage,
                              now, oRequests, oTrace, oStatus, oArtifacts, oFilesAtStart,
                              conceptMd>>
          ELSE /\ IF v.kind = "syntaxError"
                  THEN OrchCatch("Unexpected token", project, logs, oTrace, oArtifacts)
                  ELSE OrchReview(v, now)
               /\ UNCHANGED <<now, oRequests, oFilesAtStart, oRepairs, conceptMd>>

oFixReturns ==
  /\ UNCHANGED <<pipeVars, chatVars, boardVars, callVars, cacheVars, jsonVars, brainVars, reviewVars, designVars, analyzeVars, monVars, saveVars>>
  /\ oPc = "await_fix"
  /\ \/ /\ OrchCatch(AgentThrows.text, project, logs, oTrace, oArtifacts)
        /\ UNCHANGED <<now, oRequests, oFilesAtStart, oRepairs, conceptMd>>
     \/ \E v \in ParsedValues :
          /\ IF v.kind = "syntaxError"
             THEN OrchCatch("Unexpected token", project, logs, oTrace, oArtifacts)
             ELSE OrchReview(v, now)
          /\ UNCHANGED <<now, oRequests, oFilesAtStart, oRepairs, conceptMd>>

\* time passes
oTick ==
  /\ UNCHANGED <<pipeVars, chatVars, boardVars, callVars, cacheVars, jsonVars, brainVars, reviewVars, designVars, analyzeVars, monVars, saveVars>>
  /\ now < MaxClock
  /\ now' = now + 1
  /\ UNCHANGED <<oPc, isProcessing, currentAgent, project, logs, lastMessage,
                 oRequests, oTrace, oStatus, oArtifacts, oFilesAtStart, oRepairs, conceptMd>>

OrchNext == oSubmit \/ oExpertReturns \/ oConceptReturns \/ oCodeReturns \/ oFixReturns \/ oTick

(***************************************************************************)
(* Part 3  handleSendMessage with pause, resume and stop (index.tsx,       *)
(* WorkspaceView).  The source ends inside the reviewing loop: a request   *)
(* that gets there is "beyond", and one that has thrown is "thrown"; the   *)
(* catch block is not part of the source.  The terminal log and the chat   *)
(* messages of this version are left out: no step reads them.              *)
(***************************************************************************)
MaxChatRequests == 2
ChatIds == 1..MaxChatRequests

INITIAL_FILES_TEMPLATE == INITIAL_FILES

\* createNode(parentPath, 'file', content) of this version: the file is
\* 'neue-datei.tsx' inside parentPath or, when parentPath contains a '.',
\* the file parentPath names
createNodeWorkspace(tree, parentPath, content) ==
  LET targetPath == TargetPath(parentPath)
      newName == IF HasDot(parentPath) THEN parentPath[Len(parentPath)] ELSE "neue-datei.tsx"
      newPath == Append(targetPath, newName)
  IN addNodeToTarget(ensureFolderExists(tree, targetPath), targetPath, newPath,
                     FileNode(content))

ActionConcept == [type |-> "CREATE_FILE", path |-> PathConcept, content |-> "concept"]
ActionDesign == [type |-> "CREATE_FILE", path |-> PathDesign, content |-> "design"]
ActionDelete == [type |-> "DELETE_FILE", path |-> <<"src", "index.css">>, content |-> ""]
PlannerActionLists == { <<>>, <<ActionConcept>>, <<ActionConcept, ActionDesign>>, <<ActionDelete>> }

\* plannerActions.forEach(...): createNode on the folder of the path, then
\* updateFileContent on the path
RECURSIVE ApplyPlannerActions(_, _)
ApplyPlannerActions(actions, tree) ==
  IF actions = <<>> THEN tree
  ELSE LET a == Head(actions)
           folderPath == SubSeq(a.path, 1, Len(a.path) - 1)
           t1 == IF a.type \in {"CREATE_FILE", "UPDATE_FILE"}
                 THEN updateFileContent(createNodeWorkspace(tree, folderPath, a.content),
                                        a.path, a.content)
                 ELSE tree
       IN ApplyPlannerActions(Tail(actions), t1)

\* The checkpoints, named after what follows them.  Between "db2" and
\* "coding1" lies setAgentStep('coding'); "coding1" is followed by "coding2"
\* and "review1" by "review2" with no await in between.
NextCheck(label) ==
  CASE label = "db2" -> "coding1"
    [] label = "coding1" -> "coding2"
    [] label = "review1" -> "review2"
    [] OTHER -> "none"

AwaitAfter(label) ==
  CASE label = "expert" -> "await_expert"
    [] label = "planner" -> "await_planner"
    [] label = "asset" -> "await_asset"
    [] label = "db1" -> "await_sleep"
    [] label = "coding2" -> "await_coder"
    [] label = "review2" -> "await_review"
    [] OTHER -> "none"

\* checkControlFlow up to its await
checkControlFlow(abortedNow, pausedNow) ==
  IF abortedNow THEN "throw" ELSE IF pausedNow THEN "block" ELSE "pass"

Cancelled == [pc |-> "thrown", next |-> "none", step |-> "keep"]

\* a request calls checkControlFlow at checkpoint label and runs on to its
\* next await, or blocks, or throws
RECURSIVE Arrive(_, _, _)
Arrive(label, abortedNow, pausedNow) ==
  LET c == checkControlFlow(abortedNow, pausedNow)
      r == IF NextCheck(label) = "none"
           THEN [pc |-> AwaitAfter(label), next |-> "none", step |-> "keep"]
           ELSE Arrive(NextCheck(label), abortedNow, pausedNow)
  IN IF c = "throw" THEN Cancelled
     ELSE IF c = "block" THEN [pc |-> "blocked", next |-> label, step |-> "keep"]
     ELSE IF label = "db2" /\ r.pc # "thrown" THEN [r EXCEPT !.step = "coding"] ELSE r

\* the promise of checkControlFlow resolves: the second test of the abort
\* signal, then on to the next await
Released(label, abortedNow, pausedNow) ==
  LET r == IF NextCheck(label) = "none"
           THEN [pc |-> AwaitAfter(label), next |-> "none", step |-> "keep"]
           ELSE Arrive(NextCheck(label), abortedNow, pausedNow)
  IN IF abortedNow THEN Cancelled
     ELSE IF label = "db2" THEN [r EXCEPT !.step = "coding"] ELSE r

ChatInit ==
  /\ cPc = [i \in ChatIds |-> "none"]
  /\ cNext = [i \in ChatIds |-> "none"]
  /\ cNeedsDb = [i \in ChatIds |-> FALSE]
  /\ cError = [i \in ChatIds |-> ""]
  /\ cStarted = 0
  /\ abortControllerRef = 0
  /\ aborted = [i \in ChatIds |-> FALSE]
  /\ pauseResolverRef = 0
  /\ isPausedRef = FALSE
  /\ isPaused = FALSE
  /\ agentStep = "idle"
  /\ cTree = INITIAL_FILES_TEMPLATE
  /\ aiReady = FALSE
  /\ cPausePending = FALSE
  /\ cStopped = [i \in ChatIds |-> FALSE]

CurrentAborted == abortControllerRef # 0 /\ aborted[abortControllerRef]

ActiveStates == {"await_expert", "await_planner", "await_asset", "await_image",
                 "await_sleep", "await_coder", "await_review", "blocked"}

\* request i goes where r says, after setAgentStep(step)
Settle(i, r, step) ==
  /\ cPc' = [cPc EXCEPT ![i] = r.pc]
  /\ cNext' = [cNext EXCEPT ![i] = r.next]
  /\ cError' = [cError EXCEPT ![i] = IF r.pc = "thrown" THEN "Cancelled" ELSE @]
  /\ pauseResolverRef' = IF r.pc = "blocked" THEN i ELSE pauseResolverRef
  /\ agentStep' = IF r.step # "keep" THEN r.step ELSE step

\* request i throws message
Throws(i, message) ==
  /\ cPc' = [cPc EXCEPT ![i] = "thrown"]
  /\ cError' = [cError EXCEPT ![i] = message]
  /\ UNCHANGED <<cNext, pauseResolverRef, agentStep>>

\* useEffect: aiRef.current is set when the environment has an API key
useEffectApiKey ==
  /\ UNCHANGED <<pipeVars, orchVars, boardVars, callVars, cacheVars, jsonVars, brainVars, reviewVars, designVars, analyzeVars, monVars, saveVars>>
  /\ ~aiReady
  /\ aiReady' = TRUE
  /\ UNCHANGED <<cPc, cNext, cNeedsDb, cError, cStarted, abortControllerRef, aborted,
                 pauseResolverRef, isPausedRef, isPaused, agentStep, cTree,
                 cPausePending, cStopped>>

\* handleSendMessage up to its first await: the control state is reset and
\* the request arrives at its first checkpoint
handleSendMessage ==
  /\ UNCHANGED <<pipeVars, orchVars, boardVars, callVars, cacheVars, jsonVars, brainVars, reviewVars, designVars, analyzeVars, monVars, saveVars>>
  /\ aiReady
  /\ cStarted < MaxChatRequests
  /\ LET i == cStarted + 1
     IN /\ cStarted' = i
        /\ abortControllerRef' = i
        /\ aborted' = [aborted EXCEPT ![i] = FALSE]
        /\ isPausedRef' = FALSE
        /\ isPaused' = FALSE
        /\ \E db \in BOOLEAN : cNeedsDb' = [cNeedsDb EXCEPT ![i] = db]
        /\ Settle(i, Arrive("expert", FALSE, FALSE), "optimizing")
  /\ UNCHANGED <<cTree, aiReady, cPausePending, cStopped>>

\* the send button, disabled unless agentStep is 'idle'
SendButtonClick == agentStep = "idle" /\ handleSendMessage

\* the Enter key in the chat input
handleKeyDown == handleSendMessage

\* the prompt expert's answer returns; on to the planning stage
cExpertReturns(i) ==
  /\ UNCHANGED <<pipeVars, orchVars, boardVars, callVars, cacheVars, jsonVars, brainVars, reviewVars, designVars, analyzeVars, monVars, saveVars>>
  /\ cPc[i] = "await_expert"
  /\ \/ Throws(i, "provider error")
     \/ Settle(i, Arrive("planner", CurrentAborted, isPausedRef), "planning")
  /\ UNCHANGED <<cNeedsDb, cStarted, abortControllerRef, aborted, isPausedRef, isPaused,
                 cTree, aiReady, cPausePending, cStopped>>

\* the planner's answer returns: its actions are applied, then on to the
\* designing stage
cPlannerReturns(i) ==
  /\ UNCHANGED <<pipeVars, orchVars, boardVars, callVars, cacheVars, jsonVars, brainVars, reviewVars, designVars, analyzeVars, monVars, saveVars>>
  /\ cPc[i] = "await_planner"
  /\ \/ \E m \in {"provider error", "Unexpected token"} :
          Throws(i, m) /\ UNCHANGED cTree
     \/ \E actions \in PlannerActionLists :
          /\ cTree' = ApplyPlannerActions(actions, cTree)
          /\ Settle(i, Arrive("asset", CurrentAborted, isPausedRef), "designing")
  /\ UNCHANGED <<cNeedsDb, cStarted, abortControllerRef, aborted, isPausedRef, isPaused,
                 aiReady, cPausePending, cStopped>>

\* the asset prompt returns; the image is requested
cAssetReturns(i) ==
  /\ UNCHANGED <<pipeVars, orchVars, boardVars, callVars, cacheVars, jsonVars, brainVars, reviewVars, designVars, analyzeVars, monVars, saveVars>>
  /\ cPc[i] = "await_asset"
  /\ \/ \E m \in {"provider error", "Cannot read properties of undefined"} : Throws(i, m)
     \/ /\ cPc' = [cPc EXCEPT ![i] = "await_image"]
        /\ UNCHANGED <<cNext, cError, pauseResolverRef, agentStep>>
  /\ UNCHANGED <<cNeedsDb, cStarted, abortControllerRef, aborted, isPausedRef, isPaused,
                 cTree, aiReady, cPausePending, cStopped>>

\* the image request returns or fails (a failure is only logged); on to the
\* database stage when the message asks for a backend, else to coding
cImageReturns(i) ==
  /\ UNCHANGED <<pipeVars, orchVars, boardVars, callVars, cacheVars, jsonVars, brainVars, reviewVars, designVars, analyzeVars, monVars, saveVars>>
  /\ cPc[i] = "await_image"
  /\ IF cNeedsDb[i]
     THEN Settle(i, Arrive("db1", CurrentAborted, isPausedRef), "database")
     ELSE Settle(i, Arrive("coding1", CurrentAborted, isPausedRef), "coding")
  /\ UNCHANGED <<cNeedsDb, cStarted, abortControllerRef, aborted, isPausedRef, isPaused,
                 cTree, aiReady, cPausePending, cStopped>>

\* the 800 ms of the database stage are over
cSleepDone(i) ==
  /\ UNCHANGED <<pipeVars, orchVars, boardVars, callVars, cacheVars, jsonVars, brainVars, reviewVars, designVars, analyzeVars, monVars, saveVars>>
  /\ cPc[i] = "await_sleep"
  /\ Settle(i, Arrive("db2", CurrentAborted, isPausedRef), agentStep)
  /\ UNCHANGED <<cNeedsDb, cStarted, abortControllerRef, aborted, isPausedRef, isPaused,
                 cTree, aiReady, cPausePending, cStopped>>

\* the coder's answer returns; on to the reviewing loop
cCoderReturns(i) ==
  /\ UNCHANGED <<pipeVars, orchVars, boardVars, callVars, cacheVars, jsonVars, brainVars, reviewVars, designVars, analyzeVars, monVars, saveVars>>
  /\ cPc[i] = "await_coder"
  /\ \/ \E m \in {"provider error", "Coder JSON Invalid"} : Throws(i, m)
     \/ Settle(i, Arrive("review1", CurrentAborted, isPausedRef), "reviewing")
  /\ UNCHANGED <<cNeedsDb, cStarted, abortControllerRef, aborted, isPausedRef, isPaused,
                 cTree, aiReady, cPausePending, cStopped>>

\* the reviewer's answer returns; what follows is beyond the source
cReviewReturns(i) ==
  /\ UNCHANGED <<pipeVars, orchVars, boardVars, callVars, cacheVars, jsonVars, brainVars, reviewVars, designVars, analyzeVars, monVars, saveVars>>
  /\ cPc[i] = "await_review"
  /\ \/ \E m \in {"provider error", "Unexpected token"} : Throws(i, m)
     \/ /\ cPc' = [cPc EXCEPT ![i] = "beyond"]
        /\ UNCHANGED <<cNext, cError, pauseResolverRef, agentStep>>
  /\ UNCHANGED <<cNeedsDb, cStarted, abortControllerRef, aborted, isPausedRef, isPaused,
                 cTree, aiReady, cPausePending, cStopped>>

\* the pause button, shown while agentStep is not 'idle' and isPaused is false
handlePause ==
  /\ UNCHANGED <<pipeVars, orchVars, boardVars, callVars, cacheVars, jsonVars, brainVars, reviewVars, designVars, analyzeVars, monVars, saveVars>>
  /\ agentStep # "idle" /\ ~isPaused
  /\ isPaused' = TRUE
  /\ isPausedRef' = TRUE
  /\ cPausePending' = TRUE
  /\ UNCHANGED <<cPc, cNext, cNeedsDb, cError, cStarted, abortControllerRef, aborted,
                 pauseResolverRef, agentStep, cTree, aiReady, cStopped>>

\* the resume button, shown while agentStep is not 'idle' and isPaused is
\* true: the resolver is called and cleared; the request it releases runs on
\* once the handler has returned
handleResume ==
  /\ UNCHANGED <<pipeVars, orchVars, boardVars, callVars, cacheVars, jsonVars, brainVars, reviewVars, designVars, analyzeVars, monVars, saveVars>>
  /\ agentStep # "idle" /\ isPaused
  /\ isPaused' = FALSE
  /\ isPausedRef' = FALSE
  /\ cPausePending' = FALSE
  /\ IF pauseResolverRef # 0 /\ cPc[pauseResolverRef] = "blocked"
     THEN LET j == pauseResolverRef
              r == Released(cNext[j], CurrentAborted, FALSE)
          IN /\ cPc' = [cPc EXCEPT ![j] = r.pc]
             /\ cNext' = [cNext EXCEPT ![j] = r.next]
             /\ cError' = [cError EXCEPT ![j] = IF r.pc = "thrown" THEN "Cancelled" ELSE @]
             /\ pauseResolverRef' = IF r.pc = "blocked" THEN j ELSE 0
             /\ agentStep' = IF r.step # "keep" THEN r.step ELSE agentStep
     ELSE /\ pauseResolverRef' = 0
          /\ UNCHANGED <<cPc, cNext, cError, agentStep>>
  /\ UNCHANGED <<cNeedsDb, cStarted, abortControllerRef, aborted, cTree, aiReady, cStopped>>

\* the stop button, shown while agentStep is not 'idle': the current
\* controller is aborted and the resolver called (and kept); the request it
\* releases finds the signal aborted
handleStop ==
  /\ UNCHANGED <<pipeVars, orchVars, boardVars, callVars, cacheVars, jsonVars, brainVars, reviewVars, designVars, analyzeVars, monVars, saveVars>>
  /\ agentStep # "idle"
  /\ LET aborted2 == IF abortControllerRef # 0
                     THEN [aborted EXCEPT ![abortControllerRef] = TRUE] ELSE aborted
         abortedNow == abortControllerRef # 0
         j == pauseResolverRef
     IN /\ aborted' = aborted2
        /\ IF j # 0 /\ cPc[j] = "blocked"
           THEN LET r == Released(cNext[j], abortedNow, FALSE)
                IN /\ cPc' = [cPc EXCEPT ![j] = r.pc]
                   /\ cNext' = [cNext EXCEPT ![j] = r.next]
                   /\ cError' = [cError EXCEPT ![j] = IF r.pc = "thrown" THEN "Cancelled" ELSE @]
           ELSE UNCHANGED <<cPc, cNext, cError>>
  /\ isPaused' = FALSE
  /\ isPausedRef' = FALSE
  /\ agentStep' = "idle"
  /\ cPausePending' = FALSE
  /\ cStopped' = [i \in ChatIds |-> cStopped[i] \/ cPc[i] \in ActiveStates]
  /\ UNCHANGED <<cNeedsDb, cStarted, abortControllerRef, pauseResolverRef, cTree, aiReady>>

ChatNext ==
  \/ useEffectApiKey \/ SendButtonClick \/ handleKeyDown
  \/ handlePause \/ handleResume \/ handleStop
  \/ \E i \in ChatIds :
       \/ cExpertReturns(i) \/ cPlannerReturns(i) \/ cAssetReturns(i) \/ cImageReturns(i)
       \/ cSleepDone(i) \/ cCoderReturns(i) \/ cReviewReturns(i)

(***************************************************************************)
(* Part 4  the model router (ModelRouter), the stored keys (apiKeys) and   *)
(* the agent pipeline that runs the agents stage by stage.  The agents and *)
(* the router are those of the source; the pipeline that calls them is not *)
(* part of the source and follows the specification.                       *)
(***************************************************************************)
MaxBoardRequests == 2

Providers == {"claude", "gemini", "openai"}
KeyValues == {"", "sk"}
NoKeys == [p \in Providers |-> ""]

NoConfig == [provider |-> "none", model |-> "none"]

\* type TaskType, type Complexity
TaskTypes == {"reasoning", "speed", "coding", "creative", "image", "general"}
Complexities == {"low", "medium", "high"}

\* (mutant) the ranking turned round
PriorityReversed(provider) ==
  CASE provider = "claude" -> 1 [] provider = "gemini" -> 2 [] provider = "openai" -> 3
    [] OTHER -> 0

\* const priority  in the comparator of the sort
Priority(provider) ==
  CASE provider = "claude" -> 3 [] provider = "gemini" -> 2 [] provider = "openai" -> 1
    [] OTHER -> 0

ModelOf(provider, taskType, complexity) ==
  CASE provider = "claude" ->
         IF complexity = "high" THEN "claude-3-5-sonnet-20241022" ELSE "claude-3-haiku-20240307"
    [] provider = "gemini" ->
         IF taskType = "image" THEN "gemini-2.5-flash-image"
         ELSE IF complexity = "high" THEN "gemini-3-pro-preview" ELSE "gemini-2.5-flash"
    [] provider = "openai" ->
         IF complexity = "high" THEN "gpt-4-turbo-preview" ELSE "gpt-3.5-turbo"

\* (mutant) a provider counts as usable as soon as its client exists
HasModelClientOnly(provider, cl, keys) == provider \in cl

\* this.<provider>Client && getApiKey(<provider>)
HasModel(provider, cl, keys) == provider \in cl /\ keys[provider] # ""

\* (mutant) candidates are collected without looking at client or key
selectModelUnchecked(taskType, complexity, cl, keys) ==
  LET available ==
        {p \in Providers :
           \/ p = "claude" /\ (taskType \in {"reasoning", "coding"} \/ complexity = "high")
           \/ p = "gemini" /\ taskType \in {"speed", "creative", "image"}
           \/ p = "openai"}
      best == CHOOSE p \in available : \A q \in available : Priority(q) <= Priority(p)
  IN [provider |-> best, model |-> ModelOf(best, taskType, complexity)]

\* selectModel(taskType, complexity): NoConfig for null
selectModel(taskType, complexity, cl, keys) ==
  LET available ==
        {p \in Providers :
           /\ HasModel(p, cl, keys)
           /\ \/ p = "claude" /\ (taskType \in {"reasoning", "coding"} \/ complexity = "high")
              \/ p = "gemini" /\ taskType \in {"speed", "creative", "image"}
              \/ p = "openai"}
  IN IF available = {} THEN NoConfig
     ELSE LET best == CHOOSE p \in available : \A q \in available : Priority(q) <= Priority(p)
          IN [provider |-> best, model |-> ModelOf(best, taskType, complexity)]

\* initializeClients(): a client for every provider with a key; a client
\* once created stays
initializeClients(cl, keys) == cl \cup {p \in Providers : keys[p] # ""}

\* The stages.  absent: what the agent does when selectModel returns null;
\* fails: what it does when callModel throws.
BoardStages ==
  << [name |-> "optimizing", task |-> "reasoning", complexity |-> "high", file |-> "none",
      absent |-> "Kein verfügbares Modell für Prompt-Optimierung", fails |-> "throw"],
     [name |-> "concept", task |-> "reasoning", complexity |-> "high", file |-> "brain/concept.md",
      absent |-> "Kein verfügbares Modell für Konzept-Erstellung", fails |-> "throw"],
     [name |-> "marketing", task |-> "creative", complexity |-> "medium", file |-> "brain/marketing.md",
      absent |-> "fallback", fails |-> "throw"],
     [name |-> "designing", task |-> "creative", complexity |-> "medium", file |-> "brain/design.json",
      absent |-> "fallback", fails |-> "fallback"],
     [name |-> "schema", task |-> "coding", complexity |-> "high", file |-> "brain/database.md",
      absent |-> "Kein verfügbares Modell für Schema-Erstellung", fails |-> "throw"] >>

BoardInit ==
  /\ apiKeys = NoKeys
  /\ clients = {}
  /\ bPc = "idle"
  /\ bStage = 0
  /\ bStatus = "none"
  /\ bError = ""
  /\ bTrace = <<>>
  /\ bBrain = {}
  /\ bKeysAtStart = NoKeys
  /\ bRequests = 0

\* handleSave of the settings dialog: saveApiKeys(keys), then refreshClients()
handleSave ==
  /\ UNCHANGED <<pipeVars, orchVars, chatVars, callVars, cacheVars, jsonVars, brainVars, reviewVars, designVars, analyzeVars, monVars, saveVars>>
  /\ \E keys \in [Providers -> KeyValues] :
       /\ keys # apiKeys
       /\ apiKeys' = keys
       /\ clients' = initializeClients(clients, keys)
  /\ UNCHANGED <<bPc, bStage, bStatus, bError, bTrace, bBrain, bKeysAtStart, bRequests>>

\* updateApiKey(provider, key): the stored keys change, the router is not told
updateApiKey ==
  /\ UNCHANGED <<pipeVars, orchVars, chatVars, callVars, cacheVars, jsonVars, brainVars, reviewVars, designVars, analyzeVars, monVars, saveVars>>
  /\ \E p \in Providers, key \in KeyValues :
       /\ key # apiKeys[p]
       /\ apiKeys' = [apiKeys EXCEPT ![p] = key]
  /\ UNCHANGED <<clients, bPc, bStage, bStatus, bError, bTrace, bBrain, bKeysAtStart,
                 bRequests>>

\* clearApiKeys(): the stored keys are removed, the router is not told
clearApiKeys ==
  /\ UNCHANGED <<pipeVars, orchVars, chatVars, callVars, cacheVars, jsonVars, brainVars, reviewVars, designVars, analyzeVars, monVars, saveVars>>
  /\ apiKeys # NoKeys
  /\ apiKeys' = NoKeys
  /\ UNCHANGED <<clients, bPc, bStage, bStatus, bError, bTrace, bBrain, bKeysAtStart,
                 bRequests>>

\* refreshClients(): initializeClients() with the keys stored now
refreshClients ==
  /\ UNCHANGED <<pipeVars, orchVars, chatVars, callVars, cacheVars, jsonVars, brainVars, reviewVars, designVars, analyzeVars, monVars, saveVars>>
  /\ clients' = initializeClients(clients, apiKeys)
  /\ UNCHANGED <<apiKeys, bPc, bStage, bStatus, bError, bTrace, bBrain, bKeysAtStart,
                 bRequests>>

\* the failed result of the pipeline's top-level catch
BoardFails(message, trace, brain) ==
  /\ bPc' = "idle"
  /\ bStatus' = "Failed"
  /\ bError' = message
  /\ bTrace' = trace
  /\ bBrain' = brain
  /\ UNCHANGED bStage

\* Stage k starts: its agent selects a model and calls it; without a model
\* it throws or writes its fallback and the next stage starts.
RECURSIVE BoardEnter(_, _, _)
BoardEnter(k, trace, brain) ==
  IF k > Len(BoardStages)
  THEN /\ bPc' = "idle" /\ bStatus' = "Success" /\ bError' = ""
       /\ bTrace' = trace /\ bBrain' = brain /\ UNCHANGED bStage
  ELSE LET st == BoardStages[k]
           config == selectModel(st.task, st.complexity, clients, apiKeys)
           trace2 == Append(trace, st.name)
       IN IF config # NoConfig
          THEN /\ bPc' = "await" /\ bStage' = k /\ bTrace' = trace2 /\ bBrain' = brain
               /\ bStatus' = "none" /\ bError' = ""
          ELSE IF st.absent = "fallback"
          THEN BoardEnter(k + 1, trace2, brain \cup {st.file})
          ELSE BoardFails(st.absent, trace2, brain)

\* a request is submitted: the first stage starts
bSubmit ==
  /\ UNCHANGED <<pipeVars, orchVars, chatVars, callVars, cacheVars, jsonVars, brainVars, reviewVars, designVars, analyzeVars, monVars, saveVars>>
  /\ bPc = "idle"
  /\ bRequests < MaxBoardRequests
  /\ bRequests' = bRequests + 1
  /\ bKeysAtStart' = apiKeys
  /\ BoardEnter(1, <<>>, {})
  /\ UNCHANGED <<apiKeys, clients>>

\* the model call of the running stage returns or, after its retries,
\* throws; the stage's file is written and the next stage starts
bStageReturns ==
  /\ UNCHANGED <<pipeVars, orchVars, chatVars, callVars, cacheVars, jsonVars, brainVars, reviewVars, designVars, analyzeVars, monVars, saveVars>>
  /\ bPc = "await"
  /\ LET st == BoardStages[bStage]
         written == IF st.file = "none" THEN bBrain ELSE bBrain \cup {st.file}
     IN \/ BoardEnter(bStage + 1, bTrace, written)
        \/ IF st.fails = "fallback"
           THEN BoardEnter(bStage + 1, bTrace, written)
           ELSE BoardFails("Alle Versuche fehlgeschlagen", bTrace, bBrain)
  /\ UNCHANGED <<apiKeys, clients, bKeysAtStart, bRequests>>

BoardNext ==
  handleSave \/ updateApiKey \/ clearApiKeys \/ refreshClients \/ bSubmit \/ bStageReturns

(***************************************************************************)
(* Part 5: ModelRouter.callModel, the retry loop around one provider call  *)
(***************************************************************************)
MaxCallRetries == 3

\* the cases of  switch (config.provider)  that call a provider
CalledProviders == {"claude", "gemini", "openai"}

\* config.provider:  'huggingface'  throws inside the switch, any other value
\* falls to  default
CallProviders == CalledProviders \cup {"huggingface", "mistral"}

\* what a provider call rejects with
ProviderErrors == {"429 rate limit", "401 invalid api key"}

\* the text of a ModelResponse
ProviderResponses == {"response"}

MsgHuggingFace == "Hugging Face Integration noch nicht implementiert"

MsgUnknownProvider(provider) == "Unbekannter Provider: " \o provider

\* lastError?.message  inside the template string
MessageOf(lastError) == IF lastError.defined THEN lastError.message ELSE "undefined"

MsgAllFailed(lastError) == "Alle Versuche fehlgeschlagen: " \o MessageOf(lastError)

RECURSIVE Pow2(_)
\* Math.pow(2, n)
Pow2(n) == IF n = 0 THEN 1 ELSE 2 * Pow2(n - 1)

\* (mutant) a delay that grows linearly
BackoffLinear(attempt) == 2 * attempt * 1000

\* Math.pow(2, attempt) * 1000
Backoff(attempt) == Pow2(attempt) * 1000

\* (mutant) one more turn of the loop
CallLoopGuardOneMore(attempt, maxRetries) == attempt <= maxRetries

\* attempt < maxRetries  of the for loop
CallLoopGuard(attempt, maxRetries) == attempt < maxRetries

CallInit ==
  /\ mPc = "idle"
  /\ mProvider = "claude"
  /\ mMaxRetries = 3
  /\ mAttempt = 0
  /\ mLastError = [defined |-> FALSE, message |-> ""]
  /\ mCalls = 0
  /\ mErrors = <<>>
  /\ mSleeps = <<>>
  /\ mOutcome = [kind |-> "none", text |-> ""]

RECURSIVE CallLoop(_, _, _, _, _)
RECURSIVE CallCaught(_, _, _, _, _)
\* the catch block for the error of attempt a: the timer when an attempt is
\* left, else on to the loop head
CallCaught(a, message, errors, calls, sleeps) ==
  LET caught == [defined |-> TRUE, message |-> message]
      caughtAll == Append(errors, message)
  IN IF a < mMaxRetries' - 1
     THEN /\ mPc' = "sleep"
          /\ mAttempt' = a
          /\ mLastError' = caught
          /\ mErrors' = caughtAll
          /\ mCalls' = calls
          /\ mSleeps' = Append(sleeps, Backoff(a))
          /\ mOutcome' = [kind |-> "none", text |-> ""]
     ELSE CallLoop(a + 1, caught, caughtAll, calls, sleeps)

\* the loop head with attempt = a, up to the next await or the throw after
\* the loop
CallLoop(a, lastError, errors, calls, sleeps) ==
  IF CallLoopGuard(a, mMaxRetries')
  THEN IF mProvider' \in CalledProviders
       THEN /\ mPc' = "await_provider"
            /\ mAttempt' = a
            /\ mLastError' = lastError
            /\ mErrors' = errors
            /\ mCalls' = calls + 1
            /\ mSleeps' = sleeps
            /\ mOutcome' = [kind |-> "none", text |-> ""]
       ELSE CallCaught(a, IF mProvider' = "huggingface" THEN MsgHuggingFace
                          ELSE MsgUnknownProvider(mProvider'),
                       errors, calls, sleeps)
  ELSE /\ mPc' = "idle"
       /\ mAttempt' = a
       /\ mLastError' = lastError
       /\ mErrors' = errors
       /\ mCalls' = calls
       /\ mSleeps' = sleeps
       /\ mOutcome' = [kind |-> "thrown", text |-> MsgAllFailed(lastError)]

\* callModel(config, prompt, systemInstruction, maxRetries) is called
callModel ==
  /\ UNCHANGED <<pipeVars, orchVars, chatVars, boardVars, cacheVars, jsonVars, brainVars, reviewVars, designVars, analyzeVars, monVars, saveVars>>
  /\ mPc = "idle"
  /\ \E provider \in CallProviders, maxRetries \in 1..MaxCallRetries :
       /\ mProvider' = provider
       /\ mMaxRetries' = maxRetries
       /\ CallLoop(0, [defined |-> FALSE, message |-> ""], <<>>, 0, <<>>)

\* the provider call resolves:  return await ...
mProviderResolves ==
  /\ UNCHANGED <<pipeVars, orchVars, chatVars, boardVars, cacheVars, jsonVars, brainVars, reviewVars, designVars, analyzeVars, monVars, saveVars>>
  /\ mPc = "await_provider"
  /\ \E r \in ProviderResponses :
       /\ mPc' = "idle"
       /\ mOutcome' = [kind |-> "returned", text |-> r]
  /\ UNCHANGED <<mProvider, mMaxRetries, mAttempt, mLastError, mCalls, mErrors, mSleeps>>

\* the provider call rejects: the catch block
mProviderRejects ==
  /\ UNCHANGED <<pipeVars, orchVars, chatVars, boardVars, cacheVars, jsonVars, brainVars, reviewVars, designVars, analyzeVars, monVars, saveVars>>
  /\ mPc = "await_provider"
  /\ UNCHANGED <<mProvider, mMaxRetries>>
  /\ \E e \in ProviderErrors : CallCaught(mAttempt, e, mErrors, mCalls, mSleeps)

\* the timer of the backoff fires: attempt++ and the loop head
mSleepDone ==
  /\ UNCHANGED <<pipeVars, orchVars, chatVars, boardVars, cacheVars, jsonVars, brainVars, reviewVars, designVars, analyzeVars, monVars, saveVars>>
  /\ mPc = "sleep"
  /\ UNCHANGED <<mProvider, mMaxRetries>>
  /\ CallLoop(mAttempt + 1, mLastError, mErrors, mCalls, mSleeps)

CallNext == callModel \/ mProviderResolves \/ mProviderRejects \/ mSleepDone

(***************************************************************************)
(* Part 6: PerformanceOptimizer, the cache of build results.  A string is  *)
(* the sequence of its UTF-16 code units.                                  *)
(***************************************************************************)
MaxContentLen == 1
MaxCached == 1

\* the paths "a" and "b"
CachePaths == {<<97>>, <<98>>}

\* the characters "A", "B" and "r"
ContentChars == {65, 66, 114}

CacheContents == UNION {[1..n -> ContentChars] : n \in 1..MaxContentLen}

\* a Record<string, string>: its entries in the order Object.keys gives them
CacheFileMaps ==
  LET entries == {[path |-> p, content |-> c] : p \in CachePaths, c \in CacheContents}
  IN {<<x>> : x \in entries}
     \cup {m \in {<<x, y>> : x \in entries, y \in entries} : m[1].path # m[2].path}

\* the BuildResult values put into the cache
CacheResults == {"success", "failure"}

\* hash = ((hash << 5) - hash) + char;  hash = hash & hash:  31 * hash + char
\* as a signed 32-bit integer, computed on the two 16-bit halves of hash
Hash32Step(hash, char) ==
  LET lo == hash % 65536
      hi == (hash \div 65536) % 65536
      lo2 == (lo * 31) + char
      hi2 == ((hi * 31) + (lo2 \div 65536)) % 65536
  IN ((IF hi2 >= 32768 THEN hi2 - 65536 ELSE hi2) * 65536) + (lo2 % 65536)

RECURSIVE Hash32From(_, _, _)
\* the for loop of hashContent from index i on
Hash32From(hash, content, i) ==
  IF i > Len(content) THEN hash
  ELSE Hash32From(Hash32Step(hash, content[i]), content, i + 1)

\* the code unit of a base-36 digit
Digit36(d) == IF d < 10 THEN 48 + d ELSE 87 + d

RECURSIVE Digits36(_)
\* the base-36 digits of the magnitude of v, for v > 0 or v < 0
Digits36(v) ==
  LET r == IF v >= 0 THEN v % 36 ELSE (36 - (v % 36)) % 36
      q == IF v >= 0 THEN v \div 36 ELSE (v + r) \div 36
  IN (IF q = 0 THEN <<>> ELSE Digits36(q)) \o <<Digit36(r)>>

\* hash.toString(36)
ToString36(v) ==
  IF v = 0 THEN <<48>>
  ELSE IF v > 0 THEN Digits36(v)
  ELSE <<45>> \o Digits36(v)

\* hashContent(content)
hashContent(content) == ToString36(Hash32From(0, content, 1))

RECURSIVE CodeUnitsLess(_, _)
\* the order of Array.prototype.sort() without comparator: by code units
CodeUnitsLess(s, t) ==
  IF Len(t) = 0 THEN FALSE
  ELSE IF Len(s) = 0 THEN TRUE
  ELSE IF Head(s) # Head(t) THEN Head(s) < Head(t)
  ELSE CodeUnitsLess(Tail(s), Tail(t))

RECURSIVE SortPaths(_)
\* Object.keys(projectFiles).sort(), for the set of keys
SortPaths(paths) ==
  IF paths = {} THEN <<>>
  ELSE LET first == CHOOSE p \in paths : \A q \in paths \ {p} : CodeUnitsLess(p, q)
       IN <<first>> \o SortPaths(paths \ {first})

\* Object.keys(projectFiles)
KeysInOrder(files) == [i \in 1..Len(files) |-> files[i].path]

\* projectFiles[path]
ContentOfPath(files, path) == files[CHOOSE i \in 1..Len(files) : files[i].path = path].content

RECURSIVE JoinBar(_)
\* parts.join('|')
JoinBar(parts) ==
  IF Len(parts) = 0 THEN <<>>
  ELSE IF Len(parts) = 1 THEN parts[1]
  ELSE parts[1] \o <<124>> \o JoinBar(Tail(parts))

\* `${path}:${this.hashContent(projectFiles[path])}`  for each path, joined
Combined(files, paths) ==
  JoinBar([i \in 1..Len(paths) |->
             paths[i] \o <<58>> \o hashContent(ContentOfPath(files, paths[i]))])

\* (mutant) the keys are taken in the order of the object
hashProjectFilesUnsorted(files) == hashContent(Combined(files, KeysInOrder(files)))

\* hashProjectFiles(projectFiles)
hashProjectFiles(files) ==
  hashContent(Combined(files, SortPaths({files[i].path : i \in 1..Len(files)})))

\* the key of each file map of the model
KeyOf == [files \in CacheFileMaps |-> hashProjectFiles(files)]

\* private cacheTTL = 5 * 60 * 1000
cacheTTL == 5 * 60 * 1000

\* if (this.cache.size > 50)
CacheLimit == 50

\* Date.now() moves on by one of these steps, up to MaxCacheNow
TimeSteps == {149999, 150001}
MaxCacheNow == 300001

\* (mutant) an entry of age cacheTTL still counts
FreshAtTTL(nowMs, timestamp) == nowMs - timestamp <= cacheTTL

\* (Date.now() - cached.timestamp) < this.cacheTTL
Fresh(nowMs, timestamp) == nowMs - timestamp < cacheTTL

\* this.cache.get(hash): the index of the entry, 0 for undefined
CacheIndex(entries, hash) ==
  IF \E i \in 1..Len(entries) : entries[i].fileHash = hash
  THEN CHOOSE i \in 1..Len(entries) : entries[i].fileHash = hash
  ELSE 0

\* this.cache.delete(key) for the entry at index i
CacheDelete(entries, i) ==
  [j \in 1..(Len(entries) - 1) |-> IF j < i THEN entries[j] ELSE entries[j + 1]]

\* this.cache.set(hash, entry): an existing key keeps its place
CacheSet(entries, entry) ==
  LET i == CacheIndex(entries, entry.fileHash)
  IN IF i = 0 THEN Append(entries, entry) ELSE [entries EXCEPT ![i] = entry]

NotReturned == [hit |-> FALSE, result |-> "null", age |-> -1]

CacheInit ==
  /\ cache = <<>>
  /\ cacheNow = 0
  /\ cacheOp = "none"
  /\ cacheReturned = NotReturned
  /\ hashedFiles = <<>>
  /\ hashedKey = <<>>

\* the body of getCachedResult(projectFiles) for a file map with this key
GetCachedResultOf(files, hash) ==
  LET i == CacheIndex(cache, hash)
  IN /\ hashedFiles' = files
     /\ hashedKey' = hash
     /\ cacheOp' = "get"
     /\ IF i # 0 /\ Fresh(cacheNow, cache[i].timestamp)
        THEN /\ cacheReturned' = [hit |-> TRUE, result |-> cache[i].result,
                                  age |-> cacheNow - cache[i].timestamp]
             /\ UNCHANGED cache
        ELSE /\ cacheReturned' =
                  [hit |-> FALSE, result |-> "null",
                   age |-> IF i # 0 THEN cacheNow - cache[i].timestamp ELSE -1]
             /\ cache' = IF i # 0 THEN CacheDelete(cache, i) ELSE cache
     /\ UNCHANGED cacheNow

\* getCachedResult(projectFiles)
getCachedResult ==
  /\ UNCHANGED <<pipeVars, orchVars, chatVars, boardVars, callVars, jsonVars, brainVars, reviewVars, designVars, analyzeVars, monVars, saveVars>>
  /\ \E files \in CacheFileMaps : GetCachedResultOf(files, KeyOf[files])

\* (mutant) no entry is ever deleted
EvictOverLimitNever(stored) == stored

\* if (this.cache.size > 50): delete this.cache.keys().next().value
EvictOverLimit(stored) == IF Len(stored) > CacheLimit THEN Tail(stored) ELSE stored

\* the body of cacheResult(projectFiles, result) for a file map with this key
CacheResultOf(files, hash, result) ==
  LET stored == CacheSet(cache, [fileHash |-> hash, result |-> result,
                                 timestamp |-> cacheNow])
  IN /\ hashedFiles' = files
     /\ hashedKey' = hash
     /\ cacheOp' = "set"
     /\ cache' = EvictOverLimit(stored)
     /\ UNCHANGED <<cacheNow, cacheReturned>>

\* cacheResult(projectFiles, result)
cacheResult ==
  /\ UNCHANGED <<pipeVars, orchVars, chatVars, boardVars, callVars, jsonVars, brainVars, reviewVars, designVars, analyzeVars, monVars, saveVars>>
  /\ \E files \in CacheFileMaps, result \in CacheResults :
       /\ CacheIndex(cache, KeyOf[files]) # 0 \/ Len(cache) < MaxCached
       /\ CacheResultOf(files, KeyOf[files], result)

\* clearCache()
clearCache ==
  /\ UNCHANGED <<pipeVars, orchVars, chatVars, boardVars, callVars, jsonVars, brainVars, reviewVars, designVars, analyzeVars, monVars, saveVars>>
  /\ cache' = <<>>
  /\ cacheOp' = "clear"
  /\ UNCHANGED <<cacheNow, cacheReturned, hashedFiles, hashedKey>>

\* time passes
cacheTick ==
  /\ UNCHANGED <<pipeVars, orchVars, chatVars, boardVars, callVars, jsonVars, brainVars, reviewVars, designVars, analyzeVars, monVars, saveVars>>
  /\ \E step \in TimeSteps :
       /\ cacheNow + step <= MaxCacheNow
       /\ cacheNow' = cacheNow + step
  /\ UNCHANGED <<cache, cacheOp, cacheReturned, hashedFiles, hashedKey>>

CacheNext == getCachedResult \/ cacheResult \/ clearCache \/ cacheTick

(***************************************************************************)
(* The cache filled to its limit.  New file maps come in one fixed order   *)
(* (they are interchangeable); the first of them is also looked up and     *)
(* cached again.                                                           *)
(***************************************************************************)
MaxFillExtra == 2
MaxFillNow == 150001

\* the number of file maps of the filling
FillCount == CacheLimit + MaxFillExtra

\* the paths "aa", "ab", ... of the file maps of the filling
FillPath(i) == IF i <= 26 THEN <<97, 96 + i>> ELSE <<98 + ((i - 27) \div 26), 97 + ((i - 27) % 26)>>

\* the i-th file map of the filling: one file with the content "A"
FillMap(i) == <<[path |-> FillPath(i), content |-> <<65>>]>>

\* the key of each file map of the filling
FillKey == [i \in 1..FillCount |-> hashProjectFiles(FillMap(i))]

\* the index of the file map that has this key
FillIndex(hash) == CHOOSE i \in 1..FillCount : FillKey[i] = hash

\* the file map to come next: the one after the last that is in the cache
NextFill(entries) ==
  IF Len(entries) = 0 THEN 1
  ELSE 1 + FillIndex(entries[Len(entries)].fileHash)

\* cacheResult(projectFiles, result) for the next new file map, or again for
\* the first one while it is in the cache
cacheResultFill ==
  /\ UNCHANGED <<pipeVars, orchVars, chatVars, boardVars, callVars, jsonVars, brainVars, reviewVars, designVars, analyzeVars, monVars, saveVars>>
  /\ \E i \in {1, NextFill(cache)} :
       /\ i <= FillCount
       /\ i = 1 => (Len(cache) = 0 \/ CacheIndex(cache, FillKey[1]) # 0)
       /\ CacheResultOf(FillMap(i), FillKey[i], "success")

\* getCachedResult(projectFiles) for the first file map
getCachedResultFill ==
  /\ UNCHANGED <<pipeVars, orchVars, chatVars, boardVars, callVars, jsonVars, brainVars, reviewVars, designVars, analyzeVars, monVars, saveVars>>
  /\ GetCachedResultOf(FillMap(1), FillKey[1])

\* time passes while the cache is filled
fillTick ==
  /\ UNCHANGED <<pipeVars, orchVars, chatVars, boardVars, callVars, jsonVars, brainVars, reviewVars, designVars, analyzeVars, monVars, saveVars>>
  /\ \E step \in TimeSteps :
       /\ cacheNow + step <= MaxFillNow
       /\ cacheNow' = cacheNow + step
  /\ UNCHANGED <<cache, cacheOp, cacheReturned, hashedFiles, hashedKey>>

FillNext == cacheResultFill \/ getCachedResultFill \/ fillTick

(***************************************************************************)
(* Part 7: lib/jsonParser.ts.  A text is the sequence of its characters.   *)
(***************************************************************************)
MaxSurround == 1

Quote == "\""
Backslash == "\\"

\* one pass of the for loop of extractJSON, at index i with the character
\* char; st is [braceCount, startIndex, inString, escapeNext, found]
\* (indices from 1; startIndex 0 stands for -1; found is the index at which
\* the loop returns, 0 while it goes on)
ExtractStep(st, char, i) ==
  IF st.escapeNext THEN [st EXCEPT !.escapeNext = FALSE]
  ELSE IF char = Backslash THEN [st EXCEPT !.escapeNext = TRUE]
  ELSE IF char = Quote THEN [st EXCEPT !.inString = ~st.inString]
  ELSE IF st.inString THEN st
  ELSE IF char = "{"
  THEN [st EXCEPT !.braceCount = st.braceCount + 1,
                  !.startIndex = IF st.startIndex = 0 THEN i ELSE st.startIndex]
  ELSE IF char = "}"
  THEN IF st.braceCount - 1 = 0 /\ st.startIndex # 0
       THEN [st EXCEPT !.braceCount = 0, !.found = i]
       ELSE [st EXCEPT !.braceCount = st.braceCount - 1]
  ELSE st

\* The element of a one-element set.  A value bound in a set constructor is
\* computed once, where a LET definition or an operator argument is computed
\* anew at each of its uses.
The(S) == CHOOSE x \in S : TRUE

RECURSIVE ExtractOver(_, _, _, _)
\* the for loop of extractJSON over the indices lo..hi, from the state st;
\* the range is halved, which keeps the evaluation shallow
ExtractOverRange(text, lo, hi, st) ==
  IF st.found # 0 \/ lo > hi THEN st
  ELSE IF lo = hi THEN ExtractStep(st, text[lo], lo)
  ELSE ExtractOver(text, ((lo + hi) \div 2) + 1, hi,
                   ExtractOver(text, lo, (lo + hi) \div 2, st))

ExtractOver(text, from, to, state) ==
  The({ExtractOverRange(text, lo, hi, st) : lo \in {from}, hi \in {to}, st \in {state}})

\* extractJSON(text): Absent for null
extractJSON(text) ==
  The({IF st.found # 0 THEN Present(SubSeq(text, st.startIndex, st.found)) ELSE Absent :
         st \in {ExtractOver(text, 1, Len(text),
                             [braceCount |-> 0, startIndex |-> 0, inString |-> FALSE,
                              escapeNext |-> FALSE, found |-> 0])}})

\* well-formed JSON objects: {}, {"a":1}, {"a":{"b":1}}, {"a":"}"}, {"a":"{"}
\* and {"a":"\""}
ObjEmpty == <<"{", "}">>
ObjA1 == <<"{", Quote, "a", Quote, ":", "1", "}">>
ObjNested == <<"{", Quote, "a", Quote, ":", "{", Quote, "b", Quote, ":", "1", "}", "}">>
ObjCloseInString == <<"{", Quote, "a", Quote, ":", Quote, "}", Quote, "}">>
ObjOpenInString == <<"{", Quote, "a", Quote, ":", Quote, "{", Quote, "}">>
ObjQuoteInString == <<"{", Quote, "a", Quote, ":", Quote, Backslash, Quote, Quote, "}">>

JsonObjects == {ObjEmpty, ObjA1, ObjNested, ObjCloseInString, ObjOpenInString,
                ObjQuoteInString}

\* the characters of the text around the object
SurroundChars == {"x", " ", "{", "}", Quote, Backslash}

Surrounds == UNION {[1..n -> SurroundChars] : n \in 0..MaxSurround}

JUndefined == [t |-> "undefined", s |-> <<>>, m |-> <<>>]

NoOutcome == [kind |-> "none", value |-> JUndefined]

\* JSON values: null, booleans, numbers (their digits), strings, objects as
\* the sequence of their [k, v] members in insertion order, and arrays as
\* the sequence of their [k, v] items, k the index
JNull == [t |-> "null", s |-> <<>>, m |-> <<>>]
JNumber(digits) == [t |-> "number", s |-> digits, m |-> <<>>]
JString(chars) == [t |-> "string", s |-> chars, m |-> <<>>]
JObject(members) == [t |-> "object", s |-> <<>>, m |-> members]
JBool(b) == [t |-> "boolean", s |-> IF b THEN <<"true">> ELSE <<"false">>, m |-> <<>>]
JArray(items) == [t |-> "array", s |-> <<>>, m |-> items]

\* obj[key]
JGet(obj, key) ==
  IF \E i \in 1..Len(obj.m) : obj.m[i].k = key
  THEN obj.m[CHOOSE i \in 1..Len(obj.m) : obj.m[i].k = key].v
  ELSE JUndefined

\* obj[key] = value  on the members of an object
JSet(members, key, value) ==
  IF \E i \in 1..Len(members) : members[i].k = key
  THEN [i \in 1..Len(members) |->
          IF members[i].k = key THEN [k |-> key, v |-> value] ELSE members[i]]
  ELSE Append(members, [k |-> key, v |-> value])

ParseFail == [ok |-> FALSE, v |-> JUndefined, next |-> 0]
NotParsed == [ok |-> FALSE, v |-> JUndefined]

Digits == {"0", "1", "2", "3", "4", "5", "6", "7", "8", "9"}

RECURSIVE SkipWs(_, _)
\* the index of the first character from i on that is no white space
SkipWs(text, i) ==
  IF i <= Len(text) /\ text[i] = " " THEN SkipWs(text, i + 1) ELSE i

RECURSIVE ParseStringFrom(_, _, _)
\* the characters of a JSON string from index i on, the opening quote read
ParseStringFrom(text, i, chars) ==
  IF i > Len(text) THEN ParseFail
  ELSE IF text[i] = Quote THEN [ok |-> TRUE, v |-> JString(chars), next |-> i + 1]
  ELSE IF text[i] = Backslash
  THEN IF i + 1 <= Len(text) /\ text[i + 1] \in {Quote, Backslash}
       THEN ParseStringFrom(text, i + 2, Append(chars, text[i + 1]))
       ELSE ParseFail
  ELSE ParseStringFrom(text, i + 1, Append(chars, text[i]))

RECURSIVE ParseDigits(_, _, _)
ParseDigits(text, i, digits) ==
  IF i <= Len(text) /\ text[i] \in Digits
  THEN ParseDigits(text, i + 1, Append(digits, text[i]))
  ELSE [ok |-> TRUE, v |-> JNumber(digits), next |-> i]

RECURSIVE ParseValue(_, _)
RECURSIVE ParseMembers(_, _, _)
RECURSIVE ParseItems(_, _, _)

\* the members of a JSON object from index k on, where the next key begins
MembersAt(text, k, members) ==
  IF k > Len(text) \/ text[k] # Quote THEN ParseFail
  ELSE LET key == ParseStringFrom(text, k + 1, <<>>)
           c == SkipWs(text, key.next)
       IN IF ~key.ok \/ c > Len(text) \/ text[c] # ":" THEN ParseFail
          ELSE LET val == ParseValue(text, c + 1)
                   e == SkipWs(text, val.next)
               IN IF ~val.ok \/ e > Len(text) THEN ParseFail
                  ELSE IF text[e] = ","
                  THEN ParseMembers(text, e + 1, JSet(members, key.v.s, val.v))
                  ELSE IF text[e] = "}"
                  THEN [ok |-> TRUE, v |-> JObject(JSet(members, key.v.s, val.v)),
                        next |-> e + 1]
                  ELSE ParseFail

\* the members of a JSON object from index i on, up to its closing brace
ParseMembers(text, i, members) ==
  The({MembersAt(text, k, ms) : k \in {SkipWs(text, i)}, ms \in {members}})

\* an item of an array, its value read, e the index after it
ItemsFromValue(text, val, e, items) ==
  IF ~val.ok \/ e > Len(text) THEN ParseFail
  ELSE IF text[e] = ","
  THEN ParseItems(text, e + 1, Append(items, [k |-> Len(items) + 1, v |-> val.v]))
  ELSE IF text[e] = "]"
  THEN [ok |-> TRUE, v |-> JArray(Append(items, [k |-> Len(items) + 1, v |-> val.v])),
        next |-> e + 1]
  ELSE ParseFail

\* the items of a JSON array from index i on, up to its closing bracket
ParseItems(text, i, items) ==
  The({ItemsFromValue(text, val, SkipWs(text, val.next), its) :
         val \in {ParseValue(text, i)}, its \in {items}})

\* a JSON value from index i on: an object, an array, a string, a number,
\* true, false or null
ParseValue(text, i) ==
  LET k == SkipWs(text, i)
  IN
  IF k > Len(text) THEN ParseFail
  ELSE IF text[k] = "{"
  THEN LET c == SkipWs(text, k + 1)
       IN IF c <= Len(text) /\ text[c] = "}"
          THEN [ok |-> TRUE, v |-> JObject(<<>>), next |-> c + 1]
          ELSE ParseMembers(text, k + 1, <<>>)
  ELSE IF text[k] = "["
  THEN LET c == SkipWs(text, k + 1)
       IN IF c <= Len(text) /\ text[c] = "]"
          THEN [ok |-> TRUE, v |-> JArray(<<>>), next |-> c + 1]
          ELSE ParseItems(text, k + 1, <<>>)
  ELSE IF text[k] = Quote THEN ParseStringFrom(text, k + 1, <<>>)
  ELSE IF text[k] \in Digits THEN ParseDigits(text, k, <<>>)
  ELSE IF k + 3 <= Len(text) /\ SubSeq(text, k, k + 3) = <<"n", "u", "l", "l">>
  THEN [ok |-> TRUE, v |-> JNull, next |-> k + 4]
  ELSE IF k + 3 <= Len(text) /\ SubSeq(text, k, k + 3) = <<"t", "r", "u", "e">>
  THEN [ok |-> TRUE, v |-> JBool(TRUE), next |-> k + 4]
  ELSE IF k + 4 <= Len(text) /\ SubSeq(text, k, k + 4) = <<"f", "a", "l", "s", "e">>
  THEN [ok |-> TRUE, v |-> JBool(FALSE), next |-> k + 5]
  ELSE ParseFail

\* JSON.parse(jsonString): [ok, v], ok FALSE for a SyntaxError
JsonParse(text) ==
  The({IF r.ok /\ SkipWs(text, r.next) > Len(text)
       THEN [ok |-> TRUE, v |-> r.v] ELSE NotParsed : r \in {ParseValue(text, 1)}})

\* safeParseJSON(jsonString, fallback)
safeParseJSON(jsonString, fallback) ==
  The({IF r.ok THEN r.v ELSE fallback : r \in {JsonParse(jsonString)}})

\* (mutant) only a missing field fails
FieldIsSetLax(value) == value.t # "undefined"

\* value !== undefined && value !== null && value !== ''
FieldIsSet(value) ==
  /\ value.t # "undefined"
  /\ value.t # "null"
  /\ ~(value.t = "string" /\ value.s = <<>>)

\* validateFields(obj, requiredFields)
validateFields(obj, requiredFields) ==
  \A field \in requiredFields : FieldIsSet(JGet(obj, field))

\* parseJSONFromText from the validation on
ValidatedOrFallback(parsed, requiredFields, fallback) ==
  IF parsed.t \in {"null", "undefined"} /\ requiredFields # {}
  THEN [kind |-> "thrown", value |-> JUndefined]
  ELSE IF ~validateFields(parsed, requiredFields)
  THEN [kind |-> "returned", value |-> fallback]
  ELSE [kind |-> "returned", value |-> parsed]

\* parseJSONFromText from  if (!jsonString)  on
ParsedOrFallback(jsonString, requiredFields, fallback) ==
  IF ~jsonString.defined THEN [kind |-> "returned", value |-> fallback]
  ELSE The({ValidatedOrFallback(parsed, requiredFields, fallback) :
              parsed \in {safeParseJSON(jsonString.value, fallback)}})

\* parseJSONFromText(text, requiredFields, fallback): [kind, value];
\* obj[field] throws a TypeError when obj is null or undefined
parseJSONFromText(text, requiredFields, fallback) ==
  The({ParsedOrFallback(jsonString, requiredFields, fallback) :
         jsonString \in {extractJSON(text)}})

\* the texts given to parseJSONFromText: objects that parse, with the field
\* a set, empty, null or missing, objects that do not parse, and no object
ObjAEmpty == <<"{", Quote, "a", Quote, ":", Quote, Quote, "}">>
ObjANull == <<"{", Quote, "a", Quote, ":", "n", "u", "l", "l", "}">>
ObjB1 == <<"{", Quote, "b", Quote, ":", "1", "}">>
ObjAB == <<"{", Quote, "a", Quote, ":", "1", ",", " ", Quote, "b", Quote, ":", Quote, "x",
           Quote, "}">>
ObjTrailingComma == <<"{", Quote, "a", Quote, ":", "1", ",", "}">>
ObjBareKey == <<"{", "a", ":", "1", "}">>

ParseBodies == JsonObjects \cup {ObjAEmpty, ObjANull, ObjB1, ObjAB, ObjTrailingComma,
                                 ObjBareKey, <<>>}

ParseTexts ==
  {before \o body \o after :
     before \in {<<>>, <<"x">>}, body \in ParseBodies, after \in {<<>>, <<"x", "}">>}}

\* the requiredFields arguments: [], ['a'], ['a', 'b']
RequiredFieldSets == {{}, {<<"a">>}, {<<"a">>, <<"b">>}}

\* the fallback arguments: {}, {"a":"f"} and {"a":"f","b":"g"}
Fallbacks ==
  {JObject(<<>>),
   JObject(<<[k |-> <<"a">>, v |-> JString(<<"f">>)]>>),
   JObject(<<[k |-> <<"a">>, v |-> JString(<<"f">>)],
             [k |-> <<"b">>, v |-> JString(<<"g">>)]>>)}

\* fallback: T with requiredFields: (keyof T)[]: keyof T is never for a T
\* that admits null, so a null fallback comes with no required field
FallbacksFor(fields) == IF fields = {} THEN Fallbacks \cup {JNull} ELSE Fallbacks

JsonInit ==
  /\ jOp = "none"
  /\ jText = <<>>
  /\ jEmbedded = <<>>
  /\ jExtracted = Absent
  /\ jFields = {}
  /\ jFallback = JUndefined
  /\ jParsed = NotParsed
  /\ jOutcome = NoOutcome

\* extractJSON(text) for a text with a JSON object in it
extractJSONCall ==
  /\ UNCHANGED <<pipeVars, orchVars, chatVars, boardVars, callVars, cacheVars, brainVars, reviewVars, designVars, analyzeVars, monVars, saveVars>>
  /\ jOp = "none"
  /\ \E before \in Surrounds, object \in JsonObjects, after \in Surrounds :
       /\ jOp' = "extract"
       /\ jText' = before \o object \o after
       /\ jEmbedded' = object
       /\ jExtracted' = extractJSON(before \o object \o after)
  /\ UNCHANGED <<jFields, jFallback, jParsed, jOutcome>>

\* parseJSONFromText(text, requiredFields, fallback)
parseJSONFromTextCall ==
  /\ UNCHANGED <<pipeVars, orchVars, chatVars, boardVars, callVars, cacheVars, brainVars, reviewVars, designVars, analyzeVars, monVars, saveVars>>
  /\ jOp = "none"
  /\ \E text \in ParseTexts, fields \in RequiredFieldSets :
     \E fallback \in FallbacksFor(fields) :
       /\ jOp' = "parse"
       /\ jText' = text
       /\ jEmbedded' = <<>>
       /\ jExtracted' = extractJSON(text)
       /\ jFields' = fields
       /\ jFallback' = fallback
       /\ jParsed' = IF extractJSON(text).defined
                     THEN JsonParse(extractJSON(text).value) ELSE NotParsed
       /\ jOutcome' = parseJSONFromText(text, fields, fallback)

\* the call returns to its caller and its frame is gone
jsonReturn ==
  /\ UNCHANGED <<pipeVars, orchVars, chatVars, boardVars, callVars, cacheVars, brainVars, reviewVars, designVars, analyzeVars, monVars, saveVars>>
  /\ jOp # "none"
  /\ jOp' = "none"
  /\ jText' = <<>>
  /\ jEmbedded' = <<>>
  /\ jExtracted' = Absent
  /\ jFields' = {}
  /\ jFallback' = JUndefined
  /\ jParsed' = NotParsed
  /\ jOutcome' = NoOutcome

JsonNext == extractJSONCall \/ parseJSONFromTextCall \/ jsonReturn

(***************************************************************************)
(* Part 8  searchBrain  (lib/supabase/brain, in projects.ts).  A row of    *)
(* project_brain is [id, project_id, content, created_at]; created_at is   *)
(* the time of the insert, so it grows with the id.  The queries of the    *)
(* supabase client resolve to {data, error}; they do not reject.           *)
(***************************************************************************)
MaxBrain == 3
Projects == {"p1", "p2"}
BrainContents == {<<"a", "b">>, <<"B">>, <<"c">>}
BrainQueries == {<<"b">>, <<"A", "B">>, <<>>}
BrainLimits == {1, 2}

\* the lower-case form ILIKE compares
LowerChar(c) == IF c = "A" THEN "a" ELSE IF c = "B" THEN "b" ELSE c
LowerSeq(str) == [i \in 1..Len(str) |-> LowerChar(str[i])]

\* content ILIKE '%query%', for a query without the wildcards % and _
ILikeContains(content, query) ==
  \E i \in 1..(Len(content) - Len(query) + 1) :
    SubSeq(LowerSeq(content), i, i + Len(query) - 1) = LowerSeq(query)

RECURSIVE TextSearchFrom(_, _, _, _, _)
\* the rows from index i down that match, newest first, at most limit of them
TextSearchFrom(rows, i, projectId, query, limit) ==
  IF i = 0 \/ limit = 0 THEN <<>>
  ELSE IF rows[i].project_id = projectId /\ ILikeContains(rows[i].content, query)
  THEN <<rows[i]>> \o TextSearchFrom(rows, i - 1, projectId, query, limit - 1)
  ELSE TextSearchFrom(rows, i - 1, projectId, query, limit)

\* .eq('project_id', projectId).ilike('content', `%${query}%`)
\* .order('created_at', { ascending: false }).limit(limit)
TextSearch(rows, projectId, query, limit) ==
  TextSearchFrom(rows, Len(rows), projectId, query, limit)

\* what match_brain_entries can give: up to match_count rows of the project,
\* whichever the embeddings make similar enough
SimilarityResults(rows, projectId, limit) ==
  LET own == {i \in 1..Len(rows) : rows[i].project_id = projectId}
      SeqOf(ids) ==
        LET RECURSIVE Build(_)
            Build(k) == IF k = 0 THEN <<>>
                        ELSE Build(k - 1) \o (IF k \in ids THEN <<rows[k]>> ELSE <<>>)
        IN Build(Len(rows))
  IN {SeqOf(ids) : ids \in {x \in SUBSET own : Cardinality(x) <= limit}}

NoSearchOutcome == [kind |-> "none", value |-> <<>>]

BrainInit ==
  /\ projectBrain = <<>>
  /\ sPc = "idle"
  /\ sProject = "p1"
  /\ sQuery = <<>>
  /\ sLimit = 1
  /\ sRaised = FALSE
  /\ sFallbackError = FALSE
  /\ sOutcome = NoSearchOutcome

\* saveBrainEntry(projectId, content, ...) with an insert that succeeds
saveBrainEntry ==
  /\ UNCHANGED <<pipeVars, orchVars, chatVars, boardVars, callVars, cacheVars, jsonVars, reviewVars, designVars, analyzeVars, monVars, saveVars>>
  /\ Len(projectBrain) < MaxBrain
  /\ \E projectId \in Projects, content \in BrainContents :
       projectBrain' = Append(projectBrain, [id |-> Len(projectBrain) + 1, project_id |-> projectId,
                               content |-> content, created_at |-> Len(projectBrain) + 1])
  /\ UNCHANGED <<sPc, sProject, sQuery, sLimit, sRaised, sFallbackError, sOutcome>>

\* searchBrain(projectId, query, limit) up to  await generateEmbedding(query)
searchBrain ==
  /\ UNCHANGED <<pipeVars, orchVars, chatVars, boardVars, callVars, cacheVars, jsonVars, reviewVars, designVars, analyzeVars, monVars, saveVars>>
  /\ sPc \in {"idle", "done"}
  /\ \E projectId \in Projects, query \in BrainQueries, limit \in BrainLimits :
       /\ sProject' = projectId
       /\ sQuery' = query
       /\ sLimit' = limit
  /\ sPc' = "embedding"
  /\ sRaised' = FALSE
  /\ sFallbackError' = FALSE
  /\ sOutcome' = NoSearchOutcome
  /\ UNCHANGED projectBrain

\* (mutant) a failed similarity search gives no rows
AfterSimilarityErrorEmpty ==
  /\ sPc' = "done"
  /\ sRaised' = TRUE
  /\ sOutcome' = [kind |-> "returned", value |-> <<>>]
  /\ UNCHANGED <<projectBrain, sProject, sQuery, sLimit, sFallbackError>>

\* return await searchBrainFallback(projectId, query, limit), up to its await
AfterSimilarityError ==
  /\ sPc' = "fallback"
  /\ sRaised' = TRUE
  /\ UNCHANGED <<projectBrain, sProject, sQuery, sLimit, sFallbackError, sOutcome>>

\* generateEmbedding resolves; the rpc is sent
sEmbeddingResolves ==
  /\ UNCHANGED <<pipeVars, orchVars, chatVars, boardVars, callVars, cacheVars, jsonVars, reviewVars, designVars, analyzeVars, monVars, saveVars>>
  /\ sPc = "embedding"
  /\ sPc' = "rpc"
  /\ UNCHANGED <<projectBrain, sProject, sQuery, sLimit, sRaised, sFallbackError, sOutcome>>

\* the try block throws before the rpc comes back (generateEmbedding itself
\* falls back to a placeholder when its providers fail, so this is a throw
\* outside its try blocks or of the rpc call): catch
sEmbeddingRejects ==
  /\ UNCHANGED <<pipeVars, orchVars, chatVars, boardVars, callVars, cacheVars, jsonVars, reviewVars, designVars, analyzeVars, monVars, saveVars>>
  /\ sPc = "embedding"
  /\ AfterSimilarityError

\* the rpc match_brain_entries comes back with rows or with null data
sRpcReturnsData ==
  /\ UNCHANGED <<pipeVars, orchVars, chatVars, boardVars, callVars, cacheVars, jsonVars, reviewVars, designVars, analyzeVars, monVars, saveVars>>
  /\ sPc = "rpc"
  /\ sPc' = "done"
  /\ \E data \in SimilarityResults(projectBrain, sProject, sLimit) :
       sOutcome' = [kind |-> "returned", value |-> data]
  /\ UNCHANGED <<projectBrain, sProject, sQuery, sLimit, sRaised, sFallbackError>>

\* the rpc comes back with an error:  if (error)
sRpcReturnsError ==
  /\ UNCHANGED <<pipeVars, orchVars, chatVars, boardVars, callVars, cacheVars, jsonVars, reviewVars, designVars, analyzeVars, monVars, saveVars>>
  /\ sPc = "rpc"
  /\ AfterSimilarityError

\* the query of searchBrainFallback comes back:  error gives [], else data || []
sFallbackReturns ==
  /\ UNCHANGED <<pipeVars, orchVars, chatVars, boardVars, callVars, cacheVars, jsonVars, reviewVars, designVars, analyzeVars, monVars, saveVars>>
  /\ sPc = "fallback"
  /\ sPc' = "done"
  /\ \E error \in BOOLEAN :
       /\ sFallbackError' = error
       /\ sOutcome' = [kind |-> "returned",
                       value |-> IF error THEN <<>>
                                 ELSE TextSearch(projectBrain, sProject, sQuery, sLimit)]
  /\ UNCHANGED <<projectBrain, sProject, sQuery, sLimit, sRaised>>

BrainNext ==
  \/ saveBrainEntry
  \/ searchBrain
  \/ sEmbeddingResolves
  \/ sEmbeddingRejects
  \/ sRpcReturnsData
  \/ sRpcReturnsError
  \/ sFallbackReturns

(***************************************************************************)
(* Part 9  QAAgent.reviewCode and simpleCodeCheck  (agents/qa.ts).  A      *)
(* CodeReview is a JSON object with issues, score, passed and suggestions. *)
(***************************************************************************)
Str_issues == <<"i", "s", "s", "u", "e", "s">>
Str_score == <<"s", "c", "o", "r", "e">>
Str_passed == <<"p", "a", "s", "s", "e", "d">>
Str_suggestions == <<"s", "u", "g", "g", "e", "s", "t", "i", "o", "n", "s">>
Str_type == <<"t", "y", "p", "e">>
Str_severity == <<"s", "e", "v", "e", "r", "i", "t", "y">>
Str_file == <<"f", "i", "l", "e">>
Str_message == <<"m", "e", "s", "s", "a", "g", "e">>
Str_suggestion == <<"s", "u", "g", "g", "e", "s", "t", "i", "o", "n">>
Str_critical == <<"c", "r", "i", "t", "i", "c", "a", "l">>
Str_high == <<"h", "i", "g", "h">>
Str_medium == <<"m", "e", "d", "i", "u", "m">>
Str_low == <<"l", "o", "w">>
Str_warning == <<"w", "a", "r", "n", "i", "n", "g">>
Str_error == <<"e", "r", "r", "o", "r">>

MsgConsoleLog ==
  <<"c", "o", "n", "s", "o", "l", "e", ".", "l", "o", "g", " ", "g", "e", "f", "u",
    "n", "d", "e", "n", " ", "-", " ", "s", "o", "l", "l", "t", "e", " ", "i", "n",
    " ", "P", "r", "o", "d", "u", "c", "t", "i", "o", "n", " ", "e", "n", "t", "f",
    "e", "r", "n", "t", " ", "w", "e", "r", "d", "e", "n">>
SugConsoleLog ==
  <<"N", "u", "t", "z", "e", " ", "e", "i", "n", " ", "L", "o", "g", "g", "i", "n",
    "g", "-", "S", "y", "s", "t", "e", "m", " ", "o", "d", "e", "r", " ", "e", "n",
    "t", "f", "e", "r", "n", "e", " ", "c", "o", "n", "s", "o", "l", "e", ".", "l",
    "o", "g">>
MsgHardcodedKey ==
  <<"H", "a", "r", "d", "c", "o", "d", "e", "d", " ", "A", "P", "I", "-", "K", "e",
    "y", " ", "g", "e", "f", "u", "n", "d", "e", "n", " ", "-", " ", "S", "i", "c",
    "h", "e", "r", "h", "e", "i", "t", "s", "r", "i", "s", "i", "k", "o", "!">>
SugHardcodedKey ==
  <<"N", "u", "t", "z", "e", " ", "E", "n", "v", "i", "r", "o", "n", "m", "e", "n",
    "t", "-", "V", "a", "r", "i", "a", "b", "l", "e", "n", " ", "o", "d", "e", "r",
    " ", "d", "a", "s", " ", "A", "P", "I", "-", "K", "e", "y", "-", "M", "a", "n",
    "a", "g", "e", "m", "e", "n", "t", "-", "S", "y", "s", "t", "e", "m">>
MsgNoErrorHandling ==
  <<"A", "s", "y", "n", "c", " ", "C", "o", "d", "e", " ", "o", "h", "n", "e", " ",
    "E", "r", "r", "o", "r", "-", "H", "a", "n", "d", "l", "i", "n", "g">>
SugNoErrorHandling ==
  <<"F", "ü", "g", "e", " ", "t", "r", "y", "-", "c", "a", "t", "c", "h", " ", "B",
    "l", "ö", "c", "k", "e", " ", "h", "i", "n", "z", "u">>

\* the arguments code and filePath
CodeClean == <<"f", "(", ")">>
CodeConsoleLog == <<"c", "o", "n", "s", "o", "l", "e", ".", "l", "o", "g", "(", "1", ")">>
CodeHardcodedKey == <<"k", "=", "'", "s", "k", "-", "1", "'">>
CodeAwait == <<"a", "w", "a", "i", "t", " ", "f", "(", ")">>
CodeAwaitTry ==
  <<"t", "r", "y", "{", "a", "w", "a", "i", "t", " ", "f", "(", ")", "}", "c", "a",
    "t", "c", "h", "{", "}">>
ReviewCodes == {CodeClean, CodeConsoleLog, CodeHardcodedKey, CodeAwait, CodeAwaitTry}
PathSource == <<"a", ".", "t", "s">>
PathTest == <<"a", ".", "t", "e", "s", "t", ".", "t", "s">>
ReviewPaths == {PathSource, PathTest}

\* the contents of the model response
\* a review that passes with no issue
ResponsePassed ==
  <<"{", Quote, "i", "s", "s", "u", "e", "s", Quote, ":", "[", "]", ",", Quote, "s",
    "c", "o", "r", "e", Quote, ":", "1", "0", "0", ",", Quote, "p", "a", "s", "s", "e",
    "d", Quote, ":", "t", "r", "u", "e", ",", Quote, "s", "u", "g", "g", "e", "s", "t",
    "i", "o", "n", "s", Quote, ":", "[", "]", "}">>
\* a review that fails with a high issue
ResponseFailedHigh ==
  <<"{", Quote, "i", "s", "s", "u", "e", "s", Quote, ":", "[", "{", Quote, "s", "e",
    "v", "e", "r", "i", "t", "y", Quote, ":", Quote, "h", "i", "g", "h", Quote, "}",
    "]", ",", Quote, "s", "c", "o", "r", "e", Quote, ":", "4", "0", ",", Quote, "p",
    "a", "s", "s", "e", "d", Quote, ":", "f", "a", "l", "s", "e", ",", Quote, "s", "u",
    "g", "g", "e", "s", "t", "i", "o", "n", "s", Quote, ":", "[", Quote, "x", Quote,
    "]", "}">>
\* a review that passes with a critical issue
ResponsePassedCritical ==
  <<"{", Quote, "i", "s", "s", "u", "e", "s", Quote, ":", "[", "{", Quote, "s", "e",
    "v", "e", "r", "i", "t", "y", Quote, ":", Quote, "c", "r", "i", "t", "i", "c", "a",
    "l", Quote, "}", "]", ",", Quote, "s", "c", "o", "r", "e", Quote, ":", "4", "0",
    ",", Quote, "p", "a", "s", "s", "e", "d", Quote, ":", "t", "r", "u", "e", ",",
    Quote, "s", "u", "g", "g", "e", "s", "t", "i", "o", "n", "s", Quote, ":", "[",
    Quote, "x", Quote, "]", "}">>
\* a review that fails with a low issue only
ResponseFailedLow ==
  <<"{", Quote, "i", "s", "s", "u", "e", "s", Quote, ":", "[", "{", Quote, "s", "e",
    "v", "e", "r", "i", "t", "y", Quote, ":", Quote, "l", "o", "w", Quote, "}", "]",
    ",", Quote, "s", "c", "o", "r", "e", Quote, ":", "9", "0", ",", Quote, "p", "a",
    "s", "s", "e", "d", Quote, ":", "f", "a", "l", "s", "e", ",", Quote, "s", "u", "g",
    "g", "e", "s", "t", "i", "o", "n", "s", Quote, ":", "[", Quote, "x", Quote, "]", "}">>
\* a review whose passed is no boolean
ResponsePassedText ==
  <<"{", Quote, "i", "s", "s", "u", "e", "s", Quote, ":", "[", "{", Quote, "s", "e",
    "v", "e", "r", "i", "t", "y", Quote, ":", Quote, "h", "i", "g", "h", Quote, "}",
    "]", ",", Quote, "s", "c", "o", "r", "e", Quote, ":", "4", "0", ",", Quote, "p",
    "a", "s", "s", "e", "d", Quote, ":", Quote, "n", "o", Quote, ",", Quote, "s", "u",
    "g", "g", "e", "s", "t", "i", "o", "n", "s", Quote, ":", "[", Quote, "x", Quote,
    "]", "}">>
\* a review whose issues and suggestions are no arrays and whose score is out of range
ResponseIssuesText ==
  <<"{", Quote, "i", "s", "s", "u", "e", "s", Quote, ":", Quote, "n", "o", "n", "e",
    Quote, ",", Quote, "s", "c", "o", "r", "e", Quote, ":", "1", "0", "1", ",", Quote,
    "p", "a", "s", "s", "e", "d", Quote, ":", "f", "a", "l", "s", "e", ",", Quote, "s",
    "u", "g", "g", "e", "s", "t", "i", "o", "n", "s", Quote, ":", Quote, "n", "o", "n",
    "e", Quote, "}">>
\* a review without score
ResponseNoScore ==
  <<"R", "e", "v", "i", "e", "w", ":", " ", "{", Quote, "i", "s", "s", "u", "e", "s",
    Quote, ":", "[", "]", ",", Quote, "p", "a", "s", "s", "e", "d", Quote, ":", "t",
    "r", "u", "e", ",", Quote, "s", "u", "g", "g", "e", "s", "t", "i", "o", "n", "s",
    Quote, ":", "[", "]", "}">>
\* no JSON at all
ResponseNoJson == <<"L", "o", "o", "k", "s", " ", "g", "o", "o", "d">>
ReviewResponses ==
  {ResponsePassed,
   ResponseFailedHigh,
   ResponsePassedCritical,
   ResponseFailedLow,
   ResponsePassedText,
   ResponseIssuesText,
   ResponseNoScore,
   ResponseNoJson}

\* the JSON array of the values items
ArrayOf(items) == JArray([i \in 1..Len(items) |-> [k |-> i, v |-> items[i]]])

DigitChar(n) ==
  CASE n = 0 -> "0" [] n = 1 -> "1" [] n = 2 -> "2" [] n = 3 -> "3" [] n = 4 -> "4"
    [] n = 5 -> "5" [] n = 6 -> "6" [] n = 7 -> "7" [] n = 8 -> "8" [] n = 9 -> "9"

DigitValue(c) == CHOOSE n \in 0..9 : DigitChar(n) = c

RECURSIVE ToDigits(_)
\* the decimal digits of a natural number
ToDigits(n) == IF n < 10 THEN <<DigitChar(n)>> ELSE Append(ToDigits(n \div 10), DigitChar(n % 10))

RECURSIVE NumberValue(_)
\* the natural number of a sequence of digits
NumberValue(digits) ==
  IF digits = <<>> THEN 0
  ELSE 10 * NumberValue(SubSeq(digits, 1, Len(digits) - 1)) + DigitValue(digits[Len(digits)])

\* the CodeIssue { type, severity, file, message, suggestion }
CodeIssue(type, severity, file, message, suggestion) ==
  JObject(<<[k |-> Str_type, v |-> JString(type)],
            [k |-> Str_severity, v |-> JString(severity)],
            [k |-> Str_file, v |-> JString(file)],
            [k |-> Str_message, v |-> JString(message)],
            [k |-> Str_suggestion, v |-> JString(suggestion)]>>)

\* code.match(/['"](sk-|hf_|AIza)/)
HasHardcodedKey(code) ==
  \E q \in {<<"'">>, <<Quote>>} :
    \E prefix \in {<<"s", "k", "-">>, <<"h", "f", "_">>, <<"A", "I", "z", "a">>} :
      Includes(code, q \o prefix)

\* issues.filter(i => i.severity === severity).length
RECURSIVE CountSeverity(_, _)
CountSeverity(issues, severity) ==
  IF issues = <<>> THEN 0
  ELSE (IF JGet(Head(issues), Str_severity) = JString(severity) THEN 1 ELSE 0)
       + CountSeverity(Tail(issues), severity)

\* issues.map(i => i.suggestion || '').filter(Boolean)
RECURSIVE SuggestionsOf(_)
SuggestionsOf(issues) ==
  IF issues = <<>> THEN <<>>
  ELSE LET sug == JGet(Head(issues), Str_suggestion)
       IN (IF sug.t = "string" /\ sug.s # <<>> THEN <<sug>> ELSE <<>>)
          \o SuggestionsOf(Tail(issues))

\* passed: criticalIssues === 0 && highIssues === 0
ChecksPass(criticalIssues, highIssues) == criticalIssues = 0 /\ highIssues = 0

\* simpleCodeCheck(code, filePath)
simpleCodeCheck(code, filePath) ==
  LET issues ==
        (IF Includes(code, <<"c", "o", "n", "s", "o", "l", "e", ".", "l", "o", "g", "(">>)
            /\ ~Includes(filePath, <<".", "t", "e", "s", "t", ".">>)
         THEN <<CodeIssue(Str_warning, Str_low, filePath, MsgConsoleLog, SugConsoleLog)>>
         ELSE <<>>)
        \o (IF HasHardcodedKey(code)
            THEN <<CodeIssue(Str_error, Str_critical, filePath, MsgHardcodedKey,
                             SugHardcodedKey)>>
            ELSE <<>>)
        \o (IF /\ Includes(code, <<"a", "w", "a", "i", "t">>)
               /\ ~Includes(code, <<"t", "r", "y">>)
               /\ ~Includes(code, <<"c", "a", "t", "c", "h">>)
            THEN <<CodeIssue(Str_warning, Str_medium, filePath, MsgNoErrorHandling,
                             SugNoErrorHandling)>>
            ELSE <<>>)
      criticalIssues == CountSeverity(issues, Str_critical)
      highIssues == CountSeverity(issues, Str_high)
      raw == 100 - (criticalIssues * 30) - (highIssues * 15) - (Len(issues) * 5)
      score == IF raw < 0 THEN 0 ELSE raw
  IN JObject(<<[k |-> Str_issues, v |-> ArrayOf(issues)],
               [k |-> Str_score, v |-> JNumber(ToDigits(score))],
               [k |-> Str_passed, v |-> JBool(ChecksPass(criticalIssues, highIssues))],
               [k |-> Str_suggestions, v |-> ArrayOf(SuggestionsOf(issues))]>>)

\* review[field] = fallbackReview[field]
TakeFromFallback(review, fallbackReview, field) ==
  JObject(JSet(review.m, field, JGet(fallbackReview, field)))

\* reviewCode from  // Validiere Review-Struktur  on
ValidatedReview(review, fallbackReview) ==
  LET r1 == IF JGet(review, Str_issues).t # "array"
            THEN TakeFromFallback(review, fallbackReview, Str_issues) ELSE review
      r2 == IF \/ JGet(r1, Str_score).t # "number"
               \/ NumberValue(JGet(r1, Str_score).s) > 100
            THEN TakeFromFallback(r1, fallbackReview, Str_score) ELSE r1
      r3 == IF JGet(r2, Str_passed).t # "boolean"
            THEN TakeFromFallback(r2, fallbackReview, Str_passed) ELSE r2
  IN IF JGet(r3, Str_suggestions).t # "array"
     THEN TakeFromFallback(r3, fallbackReview, Str_suggestions) ELSE r3

\* the review that reviewCode makes of response.content
ReviewOfResponse(content, fallbackReview) ==
  The({IF parsed.kind = "thrown" THEN fb ELSE ValidatedReview(parsed.value, fb) :
         fb \in {fallbackReview},
         parsed \in {parseJSONFromText(content,
                                       {Str_issues, Str_score, Str_passed, Str_suggestions},
                                       fallbackReview)}})

ReviewInit ==
  /\ rPc = "idle"
  /\ rCode = <<>>
  /\ rFilePath = <<>>
  /\ rResponse = <<>>
  /\ rVia = "none"
  /\ rReview = JUndefined

\* reviewCode(code, filePath) up to its return or its  await callModel(...)
reviewCode ==
  /\ UNCHANGED <<pipeVars, orchVars, chatVars, boardVars, callVars, cacheVars, jsonVars, brainVars, designVars, analyzeVars, monVars, saveVars>>
  /\ rPc \in {"idle", "done"}
  /\ \E code \in ReviewCodes, filePath \in ReviewPaths :
       /\ rCode' = code
       /\ rFilePath' = filePath
       /\ rResponse' = <<>>
       /\ IF selectModel("reasoning", "high", clients, apiKeys) = NoConfig
          THEN /\ rPc' = "done"
               /\ rVia' = "check"
               /\ rReview' = simpleCodeCheck(code, filePath)
          ELSE /\ rPc' = "await"
               /\ rVia' = "none"
               /\ rReview' = JUndefined

\* callModel resolves with a response
rCallResolves ==
  /\ UNCHANGED <<pipeVars, orchVars, chatVars, boardVars, callVars, cacheVars, jsonVars, brainVars, designVars, analyzeVars, monVars, saveVars>>
  /\ rPc = "await"
  /\ \E content \in ReviewResponses :
       /\ rResponse' = content
       /\ rReview' = ReviewOfResponse(content, simpleCodeCheck(rCode, rFilePath))
  /\ rPc' = "done"
  /\ rVia' = "model"
  /\ UNCHANGED <<rCode, rFilePath>>

\* callModel rejects: the catch logs, and the simple check is returned
rCallRejects ==
  /\ UNCHANGED <<pipeVars, orchVars, chatVars, boardVars, callVars, cacheVars, jsonVars, brainVars, designVars, analyzeVars, monVars, saveVars>>
  /\ rPc = "await"
  /\ rPc' = "done"
  /\ rVia' = "check"
  /\ rReview' = simpleCodeCheck(rCode, rFilePath)
  /\ UNCHANGED <<rCode, rFilePath, rResponse>>

ReviewNext == handleSave \/ reviewCode \/ rCallResolves \/ rCallRejects

(***************************************************************************)
(* Part 10  DesignAgent.createDesignSystem, validateDesignSystem and       *)
(* getDefaultDesignSystem  (agents/design.ts).  A DesignSystem is a JSON   *)
(* object.                                                                 *)
(***************************************************************************)
Str_theme == <<"t", "h", "e", "m", "e">>
Str_colors == <<"c", "o", "l", "o", "r", "s">>
Str_typography == <<"t", "y", "p", "o", "g", "r", "a", "p", "h", "y">>
Str_spacing == <<"s", "p", "a", "c", "i", "n", "g">>
Str_borderRadius == <<"b", "o", "r", "d", "e", "r", "R", "a", "d", "i", "u", "s">>
Str_assets == <<"a", "s", "s", "e", "t", "s">>
Str_primary == <<"p", "r", "i", "m", "a", "r", "y">>
Str_secondary == <<"s", "e", "c", "o", "n", "d", "a", "r", "y">>
Str_background == <<"b", "a", "c", "k", "g", "r", "o", "u", "n", "d">>
Str_surface == <<"s", "u", "r", "f", "a", "c", "e">>
Str_text == <<"t", "e", "x", "t">>
Str_accent == <<"a", "c", "c", "e", "n", "t">>
Str_success == <<"s", "u", "c", "c", "e", "s", "s">>
Str_fontFamily == <<"f", "o", "n", "t", "F", "a", "m", "i", "l", "y">>
Str_fontSize == <<"f", "o", "n", "t", "S", "i", "z", "e">>
Str_xs == <<"x", "s">>
Str_sm == <<"s", "m">>
Str_base == <<"b", "a", "s", "e">>
Str_lg == <<"l", "g">>
Str_xl == <<"x", "l">>
Str_2xl == <<"2", "x", "l">>
Str_md == <<"m", "d">>

\* a member of an object, and the object of a sequence of members
Member(key, value) == [k |-> key, v |-> value]

\* getDefaultDesignSystem()
getDefaultDesignSystem ==
  JObject(<<Member(Str_theme, JString(<<"N", "e", "X", "i", "f", "y", " ", "D", "a", "r", "k", " ", "P", "r", "e", "m", "i", "u", "m">>)),
             Member(Str_colors, JObject(<<Member(Str_primary, JString(<<"#", "0", "E", "A", "5", "E", "9">>)),
                 Member(Str_secondary, JString(<<"#", "9", "4", "A", "3", "B", "8">>)),
                 Member(Str_background, JString(<<"#", "0", "2", "0", "4", "0", "8">>)),
                 Member(Str_surface, JString(<<"#", "0", "B", "0", "F", "1", "7">>)),
                 Member(Str_text, JString(<<"#", "F", "8", "F", "A", "F", "C">>)),
                 Member(Str_accent, JString(<<"#", "0", "E", "A", "5", "E", "9">>)),
                 Member(Str_success, JString(<<"#", "1", "0", "B", "9", "8", "1">>)),
                 Member(Str_warning, JString(<<"#", "F", "5", "9", "E", "0", "B">>)),
                 Member(Str_error, JString(<<"#", "E", "F", "4", "4", "4", "4">>))>>)),
             Member(Str_typography, JObject(<<Member(Str_fontFamily, JString(<<"I", "n", "t", "e", "r">>)),
                 Member(Str_fontSize, JObject(<<Member(Str_xs, JString(<<"0", ".", "7", "5", "r", "e", "m">>)),
                     Member(Str_sm, JString(<<"0", ".", "8", "7", "5", "r", "e", "m">>)),
                     Member(Str_base, JString(<<"1", "r", "e", "m">>)),
                     Member(Str_lg, JString(<<"1", ".", "1", "2", "5", "r", "e", "m">>)),
                     Member(Str_xl, JString(<<"1", ".", "2", "5", "r", "e", "m">>)),
                     Member(Str_2xl, JString(<<"1", ".", "5", "r", "e", "m">>))>>))>>)),
             Member(Str_spacing, JObject(<<Member(Str_xs, JString(<<"0", ".", "2", "5", "r", "e", "m">>)),
                 Member(Str_sm, JString(<<"0", ".", "5", "r", "e", "m">>)),
                 Member(Str_md, JString(<<"1", "r", "e", "m">>)),
                 Member(Str_lg, JString(<<"1", ".", "5", "r", "e", "m">>)),
                 Member(Str_xl, JString(<<"2", "r", "e", "m">>))>>)),
             Member(Str_borderRadius, JObject(<<Member(Str_sm, JString(<<"0", ".", "2", "5", "r", "e", "m">>)),
                 Member(Str_md, JString(<<"0", ".", "5", "r", "e", "m">>)),
                 Member(Str_lg, JString(<<"0", ".", "7", "5", "r", "e", "m">>)),
                 Member(Str_xl, JString(<<"1", "r", "e", "m">>))>>)),
             Member(Str_assets, ArrayOf(<<JString(<<"l", "o", "g", "o", ".", "p", "n", "g">>),
                JString(<<"h", "e", "r", "o", "-", "b", "g", ".", "p", "n", "g">>),
                JString(<<"f", "e", "a", "t", "u", "r", "e", "-", "i", "l", "l", "u", "s", "t", "r", "a", "t", "i", "o", "n", ".", "p", "n", "g">>)>>))>>)

\* the contents of the model response
\* a complete design system of its own
DesignComplete ==
  <<"{", Quote, "t", "h", "e", "m", "e", Quote, ":", Quote, "L", "i", "g", "h", "t",
    Quote, ",", Quote, "c", "o", "l", "o", "r", "s", Quote, ":", "{", Quote, "p", "r",
    "i", "m", "a", "r", "y", Quote, ":", Quote, "#", "1", "1", "1", Quote, ",", Quote,
    "s", "e", "c", "o", "n", "d", "a", "r", "y", Quote, ":", Quote, "#", "1", "1", "1",
    Quote, ",", Quote, "b", "a", "c", "k", "g", "r", "o", "u", "n", "d", Quote, ":",
    Quote, "#", "1", "1", "1", Quote, ",", Quote, "s", "u", "r", "f", "a", "c", "e",
    Quote, ":", Quote, "#", "1", "1", "1", Quote, ",", Quote, "t", "e", "x", "t",
    Quote, ":", Quote, "#", "1", "1", "1", Quote, ",", Quote, "a", "c", "c", "e", "n",
    "t", Quote, ":", Quote, "#", "1", "1", "1", Quote, ",", Quote, "s", "u", "c", "c",
    "e", "s", "s", Quote, ":", Quote, "#", "1", "1", "1", Quote, ",", Quote, "w", "a",
    "r", "n", "i", "n", "g", Quote, ":", Quote, "#", "1", "1", "1", Quote, ",", Quote,
    "e", "r", "r", "o", "r", Quote, ":", Quote, "#", "1", "1", "1", Quote, "}", ",",
    Quote, "t", "y", "p", "o", "g", "r", "a", "p", "h", "y", Quote, ":", "{", Quote,
    "f", "o", "n", "t", "F", "a", "m", "i", "l", "y", Quote, ":", Quote, "R", "o", "b",
    "o", "t", "o", Quote, ",", Quote, "f", "o", "n", "t", "S", "i", "z", "e", Quote,
    ":", "{", Quote, "x", "s", Quote, ":", Quote, "1", "p", "x", Quote, ",", Quote,
    "s", "m", Quote, ":", Quote, "1", "p", "x", Quote, ",", Quote, "b", "a", "s", "e",
    Quote, ":", Quote, "1", "p", "x", Quote, ",", Quote, "l", "g", Quote, ":", Quote,
    "1", "p", "x", Quote, ",", Quote, "x", "l", Quote, ":", Quote, "1", "p", "x",
    Quote, ",", Quote, "2", "x", "l", Quote, ":", Quote, "1", "p", "x", Quote, "}",
    "}", ",", Quote, "s", "p", "a", "c", "i", "n", "g", Quote, ":", "{", Quote, "x",
    "s", Quote, ":", Quote, "1", "p", "x", Quote, ",", Quote, "s", "m", Quote, ":",
    Quote, "1", "p", "x", Quote, ",", Quote, "m", "d", Quote, ":", Quote, "1", "p",
    "x", Quote, ",", Quote, "l", "g", Quote, ":", Quote, "1", "p", "x", Quote, ",",
    Quote, "x", "l", Quote, ":", Quote, "1", "p", "x", Quote, "}", ",", Quote, "b",
    "o", "r", "d", "e", "r", "R", "a", "d", "i", "u", "s", Quote, ":", "{", Quote, "s",
    "m", Quote, ":", Quote, "1", "p", "x", Quote, ",", Quote, "m", "d", Quote, ":",
    Quote, "1", "p", "x", Quote, ",", Quote, "l", "g", Quote, ":", Quote, "1", "p",
    "x", Quote, ",", Quote, "x", "l", Quote, ":", Quote, "1", "p", "x", Quote, "}",
    ",", Quote, "a", "s", "s", "e", "t", "s", Quote, ":", "[", Quote, "a", ".", "p",
    "n", "g", Quote, "]", "}">>
\* all six top-level fields, the nested ones in part
DesignNestedPartial ==
  <<"{", Quote, "t", "h", "e", "m", "e", Quote, ":", Quote, "L", "i", "g", "h", "t",
    Quote, ",", Quote, "c", "o", "l", "o", "r", "s", Quote, ":", "{", Quote, "p", "r",
    "i", "m", "a", "r", "y", Quote, ":", Quote, "#", "1", "1", "1", Quote, "}", ",",
    Quote, "t", "y", "p", "o", "g", "r", "a", "p", "h", "y", Quote, ":", "{", Quote,
    "f", "o", "n", "t", "F", "a", "m", "i", "l", "y", Quote, ":", Quote, "R", "o", "b",
    "o", "t", "o", Quote, "}", ",", Quote, "s", "p", "a", "c", "i", "n", "g", Quote,
    ":", "{", Quote, "x", "s", Quote, ":", Quote, "1", "p", "x", Quote, "}", ",",
    Quote, "b", "o", "r", "d", "e", "r", "R", "a", "d", "i", "u", "s", Quote, ":", "{",
    Quote, "s", "m", Quote, ":", Quote, "1", "p", "x", Quote, "}", ",", Quote, "a",
    "s", "s", "e", "t", "s", Quote, ":", "[", Quote, "a", ".", "p", "n", "g", Quote,
    "]", "}">>
\* the theme alone
DesignThemeOnly ==
  <<"{", Quote, "t", "h", "e", "m", "e", Quote, ":", Quote, "L", "i", "g", "h", "t",
    Quote, "}">>
\* a complete design system but for the assets
DesignNoAssets ==
  <<"{", Quote, "t", "h", "e", "m", "e", Quote, ":", Quote, "L", "i", "g", "h", "t",
    Quote, ",", Quote, "c", "o", "l", "o", "r", "s", Quote, ":", "{", Quote, "p", "r",
    "i", "m", "a", "r", "y", Quote, ":", Quote, "#", "1", "1", "1", Quote, ",", Quote,
    "s", "e", "c", "o", "n", "d", "a", "r", "y", Quote, ":", Quote, "#", "1", "1", "1",
    Quote, ",", Quote, "b", "a", "c", "k", "g", "r", "o", "u", "n", "d", Quote, ":",
    Quote, "#", "1", "1", "1", Quote, ",", Quote, "s", "u", "r", "f", "a", "c", "e",
    Quote, ":", Quote, "#", "1", "1", "1", Quote, ",", Quote, "t", "e", "x", "t",
    Quote, ":", Quote, "#", "1", "1", "1", Quote, ",", Quote, "a", "c", "c", "e", "n",
    "t", Quote, ":", Quote, "#", "1", "1", "1", Quote, ",", Quote, "s", "u", "c", "c",
    "e", "s", "s", Quote, ":", Quote, "#", "1", "1", "1", Quote, ",", Quote, "w", "a",
    "r", "n", "i", "n", "g", Quote, ":", Quote, "#", "1", "1", "1", Quote, ",", Quote,
    "e", "r", "r", "o", "r", Quote, ":", Quote, "#", "1", "1", "1", Quote, "}", ",",
    Quote, "t", "y", "p", "o", "g", "r", "a", "p", "h", "y", Quote, ":", "{", Quote,
    "f", "o", "n", "t", "F", "a", "m", "i", "l", "y", Quote, ":", Quote, "R", "o", "b",
    "o", "t", "o", Quote, ",", Quote, "f", "o", "n", "t", "S", "i", "z", "e", Quote,
    ":", "{", Quote, "x", "s", Quote, ":", Quote, "1", "p", "x", Quote, ",", Quote,
    "s", "m", Quote, ":", Quote, "1", "p", "x", Quote, ",", Quote, "b", "a", "s", "e",
    Quote, ":", Quote, "1", "p", "x", Quote, ",", Quote, "l", "g", Quote, ":", Quote,
    "1", "p", "x", Quote, ",", Quote, "x", "l", Quote, ":", Quote, "1", "p", "x",
    Quote, ",", Quote, "2", "x", "l", Quote, ":", Quote, "1", "p", "x", Quote, "}",
    "}", ",", Quote, "s", "p", "a", "c", "i", "n", "g", Quote, ":", "{", Quote, "x",
    "s", Quote, ":", Quote, "1", "p", "x", Quote, ",", Quote, "s", "m", Quote, ":",
    Quote, "1", "p", "x", Quote, ",", Quote, "m", "d", Quote, ":", Quote, "1", "p",
    "x", Quote, ",", Quote, "l", "g", Quote, ":", Quote, "1", "p", "x", Quote, ",",
    Quote, "x", "l", Quote, ":", Quote, "1", "p", "x", Quote, "}", ",", Quote, "b",
    "o", "r", "d", "e", "r", "R", "a", "d", "i", "u", "s", Quote, ":", "{", Quote, "s",
    "m", Quote, ":", Quote, "1", "p", "x", Quote, ",", Quote, "m", "d", Quote, ":",
    Quote, "1", "p", "x", Quote, ",", Quote, "l", "g", Quote, ":", Quote, "1", "p",
    "x", Quote, ",", Quote, "x", "l", Quote, ":", Quote, "1", "p", "x", Quote, "}", "}">>
\* no JSON at all
DesignNoJson == <<"S", "o", "r", "r", "y">>
DesignResponses ==
  {DesignComplete, DesignNestedPartial, DesignThemeOnly, DesignNoAssets, DesignNoJson}

\* value[key]: undefined for a key that is not there and for a value that is
\* no object
JProp(value, key) == IF value.t = "object" THEN JGet(value, key) ELSE JUndefined

\* the value is truthy: not undefined, null, false, 0 or ''
JTruthy(value) ==
  /\ value.t \notin {"undefined", "null"}
  /\ value # JBool(FALSE)
  /\ ~(value.t = "string" /\ value.s = <<>>)
  /\ ~(value.t = "number" /\ NumberValue(value.s) = 0)

\* a || b
OrElse(a, b) == IF JTruthy(a) THEN a ELSE b

ColorNames == <<Str_primary, Str_secondary, Str_background, Str_surface, Str_text,
                Str_accent, Str_success, Str_warning, Str_error>>

\* validateDesignSystem(system)
validateDesignSystem(system) ==
  LET defaultSystem == getDefaultDesignSystem
      Color(name) == OrElse(JProp(JProp(system, Str_colors), name),
                            JProp(JProp(defaultSystem, Str_colors), name))
      Top(name) == OrElse(JProp(system, name), JProp(defaultSystem, name))
  IN JObject(<<Member(Str_theme, Top(Str_theme)),
               Member(Str_colors,
                      JObject([i \in 1..Len(ColorNames) |->
                                 Member(ColorNames[i], Color(ColorNames[i]))])),
               Member(Str_typography, Top(Str_typography)),
               Member(Str_spacing, Top(Str_spacing)),
               Member(Str_borderRadius, Top(Str_borderRadius)),
               Member(Str_assets, Top(Str_assets))>>)

\* the design system that createDesignSystem makes of response.content
DesignOfResponse(content) ==
  The({IF parsed.kind = "thrown" THEN getDefaultDesignSystem
       ELSE validateDesignSystem(parsed.value) :
         parsed \in {parseJSONFromText(content,
                                       {Str_theme, Str_colors, Str_typography, Str_spacing,
                                        Str_borderRadius, Str_assets},
                                       getDefaultDesignSystem)}})

\* partial design systems: each top-level field is absent or given, the
\* nested ones in part
PartialTheme ==
  {<<>>, <<Member(Str_theme, JString(<<"L", "i", "g", "h", "t">>))>>,
   <<Member(Str_theme, JNull)>>}
PartialColors ==
  {<<>>, <<Member(Str_colors, JObject(<<Member(Str_primary, JString(<<"#", "1">>))>>))>>,
   <<Member(Str_colors, JObject(<<>>))>>}
PartialTypography ==
  {<<>>,
   <<Member(Str_typography,
            JObject(<<Member(Str_fontFamily, JString(<<"R", "o", "b", "o", "t", "o">>))>>))>>}
PartialSpacing ==
  {<<>>, <<Member(Str_spacing, JObject(<<Member(Str_xs, JString(<<"1", "p", "x">>))>>))>>}
PartialBorderRadius ==
  {<<>>,
   <<Member(Str_borderRadius, JObject(<<Member(Str_sm, JString(<<"1", "p", "x">>))>>))>>}
PartialAssets ==
  {<<>>, <<Member(Str_assets, ArrayOf(<<JString(<<"a", ".", "p", "n", "g">>)>>))>>}

PartialDesignSystems ==
  {JObject(t \o c \o ty \o s \o b \o a) :
     t \in PartialTheme, c \in PartialColors, ty \in PartialTypography,
     s \in PartialSpacing, b \in PartialBorderRadius, a \in PartialAssets}

DesignInit ==
  /\ dPc = "idle"
  /\ dResponse = <<>>
  /\ dVia = "none"
  /\ dSystem = JUndefined
  /\ vInput = JUndefined
  /\ vOutput = JUndefined

\* createDesignSystem(businessConcept) up to its return or its
\* await callModel(...)
createDesignSystem ==
  /\ UNCHANGED <<pipeVars, orchVars, chatVars, boardVars, callVars, cacheVars, jsonVars, brainVars, reviewVars, analyzeVars, monVars, saveVars>>
  /\ dPc \in {"idle", "done"}
  /\ dResponse' = <<>>
  /\ IF selectModel("creative", "medium", clients, apiKeys) = NoConfig
     THEN /\ dPc' = "done"
          /\ dVia' = "default"
          /\ dSystem' = getDefaultDesignSystem
     ELSE /\ dPc' = "await"
          /\ dVia' = "none"
          /\ dSystem' = JUndefined
  /\ UNCHANGED <<vInput, vOutput>>

\* callModel resolves with a response
dCallResolves ==
  /\ UNCHANGED <<pipeVars, orchVars, chatVars, boardVars, callVars, cacheVars, jsonVars, brainVars, reviewVars, analyzeVars, monVars, saveVars>>
  /\ dPc = "await"
  /\ \E content \in DesignResponses :
       /\ dResponse' = content
       /\ dSystem' = DesignOfResponse(content)
  /\ dPc' = "done"
  /\ dVia' = "model"
  /\ UNCHANGED <<vInput, vOutput>>

\* callModel rejects: the catch logs, and the default system is returned
dCallRejects ==
  /\ UNCHANGED <<pipeVars, orchVars, chatVars, boardVars, callVars, cacheVars, jsonVars, brainVars, reviewVars, analyzeVars, monVars, saveVars>>
  /\ dPc = "await"
  /\ dPc' = "done"
  /\ dVia' = "default"
  /\ dSystem' = getDefaultDesignSystem
  /\ UNCHANGED <<dResponse, vInput, vOutput>>

\* validateDesignSystem(system) for a partial design system
validateDesignSystemCall ==
  /\ UNCHANGED <<pipeVars, orchVars, chatVars, boardVars, callVars, cacheVars, jsonVars, brainVars, reviewVars, analyzeVars, monVars, saveVars>>
  /\ \E system \in PartialDesignSystems :
       /\ vInput' = system
       /\ vOutput' = validateDesignSystem(system)
  /\ UNCHANGED <<dPc, dResponse, dVia, dSystem>>

DesignNext == handleSave \/ createDesignSystem \/ dCallResolves \/ dCallRejects

ValidateDesignNext == validateDesignSystemCall

(***************************************************************************)
(* Part 11: the AI analysis phase of runBuild (analyzeFilesInParallel)     *)
(***************************************************************************)
PathIndex == <<"i", "n", "d", "e", "x", ".", "t", "s">>
PathMain == <<"m", "a", "i", "n", ".", "t", "s">>
PathComponent == <<"c", "o", "m", "p", "o", "n", "e", "n", "t", ".", "t", "s">>
PathAppCss == <<"A", "p", "p", ".", "c", "s", "s">>
PathIndexHtml == <<"i", "n", "d", "e", "x", ".", "h", "t", "m", "l">>
PathLowerApp == <<"a", "p", "p", ".", "t", "s">>

\* the paths a project is made of, in the order of its keys
AnalyzePathOrder ==
  <<PathApp, PathUtil, PathIndex, PathMain, PathLowerApp, PathComponent,
    PathAppCss, PathIndexHtml>>

\* the project with the paths at the positions in S
RECURSIVE ProjectOf(_, _)
ProjectOf(S, i) ==
  IF i > Len(AnalyzePathOrder) THEN <<>>
  ELSE (IF i \in S THEN <<[path |-> AnalyzePathOrder[i], content |-> ContentBalanced]>>
        ELSE <<>>) \o ProjectOf(S, i + 1)

AnalyzeProjects == {ProjectOf(S, 1) : S \in SUBSET (1..Len(AnalyzePathOrder))}

\* the third argument runBuild passes to analyzeFilesInParallel
MaxConcurrent == 3

\* entries.slice(i, i + maxConcurrent), i counted from 1
AnalysisBatchAll(entries, i) == SubSeq(entries, i, Len(entries))

AnalysisBatch(entries, i) ==
  SubSeq(entries, i,
         IF i + MaxConcurrent - 1 < Len(entries) THEN i + MaxConcurrent - 1
         ELSE Len(entries))

NoAnswers == [p \in {} |-> AiNothing]

\* what analyzeCodeWithAI can give in this phase: the outcomes of AiOutcomes
\* and an answer with a suggestion and no error
AiSuggestsOnly == [errors |-> <<>>, warnings |-> <<>>, suggestions |-> 1]
AnalysisOutcomes == AiOutcomes \cup {AiSuggestsOnly}

AnalyzeInit ==
  /\ aPc = "idle"
  /\ aFiles = <<>>
  /\ aIndex = 1
  /\ aInFlight = {}
  /\ aAnswers = NoAnswers
  /\ aOptimizations = <<>>
  /\ aResult = NoBuildResult

\* runBuild up to its await of analyzeFilesInParallel: the static analysis
\* is synchronous, and batch.map calls the analyzer of every entry of the
\* first batch before Promise.all is awaited
aRunBuild ==
  /\ UNCHANGED <<pipeVars, orchVars, chatVars, boardVars, callVars, cacheVars, jsonVars, brainVars, reviewVars, designVars, monVars, saveVars>>
  /\ aPc = "idle"
  /\ \E files \in AnalyzeProjects :
       /\ aFiles' = files
       /\ aInFlight' = KeysOf(AnalysisBatch(CriticalFiles(files), 1))
  /\ aPc' = "batch"
  /\ aIndex' = 1
  /\ aAnswers' = NoAnswers
  /\ aOptimizations' = <<>>
  /\ aResult' = NoBuildResult

\* one analyzer settles: analyzeCodeWithAI returned (a rejection is caught
\* and gives no errors and no warnings, as AiNothing does)
aAnalyzerSettles ==
  /\ UNCHANGED <<pipeVars, orchVars, chatVars, boardVars, callVars, cacheVars, jsonVars, brainVars, reviewVars, designVars, monVars, saveVars>>
  /\ aPc = "batch"
  /\ \E p \in aInFlight, o \in AnalysisOutcomes :
       /\ aInFlight' = aInFlight \ {p}
       /\ aAnswers' = (p :> o) @@ aAnswers
       /\ aOptimizations' =
            IF o.suggestions > 0
            THEN Append(aOptimizations, <<"suggest", p, o.suggestions>>)
            ELSE aOptimizations
  /\ UNCHANGED <<aPc, aFiles, aIndex, aResult>>

\* Promise.all of the batch resolves: the next batch starts, or the loop
\* ends and runBuild returns
aBatchDone ==
  /\ UNCHANGED <<pipeVars, orchVars, chatVars, boardVars, callVars, cacheVars, jsonVars, brainVars, reviewVars, designVars, monVars, saveVars>>
  /\ aPc = "batch"
  /\ aInFlight = {}
  /\ LET entries == CriticalFiles(aFiles)
         next == aIndex + MaxConcurrent
     IN IF next <= Len(entries)
        THEN /\ aIndex' = next
             /\ aInFlight' = KeysOf(AnalysisBatch(entries, next))
             /\ UNCHANGED <<aPc, aResult>>
        ELSE /\ aPc' = "done"
             /\ aResult' =
                  LET br == runBuild(aFiles, aAnswers)
                  IN [br EXCEPT !.optimizations =
                        IF br.success THEN aOptimizations ELSE <<>>]
             /\ UNCHANGED <<aIndex, aInFlight>>
  /\ UNCHANGED <<aFiles, aAnswers, aOptimizations>>

AnalyzeNext == aRunBuild \/ aAnalyzerSettles \/ aBatchDone

(***************************************************************************)
(* Part 12: the CI/CD monitor (monitor.ts)                                 *)
(***************************************************************************)
\* the checks one monitor object makes in the behaviours explored
MaxChecks == 3

\* the manual checks that can be awaiting their pipeline together
MaxManual == 1

\* the onBuildResult argument of start: left out, a function that returns,
\* a function that throws
BuildResultCallbacks == {"none", "returns", "throws"}

\* what a Partial<MonitorConfig> says about one boolean field
PartialBoolean == {"keep", "true", "false"}

Merged(old, part) == IF part = "keep" THEN old ELSE part = "true"

MonitorInit ==
  /\ monActive = FALSE
  /\ monEnabled = FALSE
  /\ monNotifyOnError = TRUE
  /\ monIntervalId = FALSE
  /\ monGetter = FALSE
  /\ monOnBuildResult = "none"
  /\ monTotalChecks = 0
  /\ monSuccessfulBuilds = 0
  /\ monFailedBuilds = 0
  /\ monLastResult = "none"
  /\ monInFlight = 0
  /\ monCallbacks = 0
  /\ monManual = 0

\* performCheck up to its await of runCICDPipeline: nothing happens without
\* a getter or when the getter returns no files; otherwise the check is
\* counted and the pipeline is called
performCheck(getter) ==
  \E noFiles \in BOOLEAN :
    IF ~getter \/ noFiles
    THEN UNCHANGED <<monTotalChecks, monInFlight>>
    ELSE /\ monTotalChecks < MaxChecks
         /\ monTotalChecks' = monTotalChecks + 1
         /\ monInFlight' = monInFlight + 1

monStart ==
  /\ UNCHANGED <<pipeVars, orchVars, chatVars, boardVars, callVars, cacheVars, jsonVars, brainVars, reviewVars, designVars, analyzeVars, saveVars>>
  /\ \E callback \in BuildResultCallbacks :
       IF monActive
       THEN UNCHANGED monVars
       ELSE /\ monGetter' = TRUE
            /\ monOnBuildResult' = callback
            /\ monEnabled' = TRUE
            /\ monActive' = TRUE
            /\ performCheck(TRUE)
            /\ monIntervalId' = TRUE
            /\ UNCHANGED <<monNotifyOnError, monSuccessfulBuilds, monFailedBuilds,
                           monLastResult, monCallbacks, monManual>>

monStop ==
  /\ UNCHANGED <<pipeVars, orchVars, chatVars, boardVars, callVars, cacheVars, jsonVars, brainVars, reviewVars, designVars, analyzeVars, saveVars>>
  /\ monIntervalId' = FALSE
  /\ monActive' = FALSE
  /\ monEnabled' = FALSE
  /\ UNCHANGED <<monNotifyOnError, monGetter, monOnBuildResult, monTotalChecks,
                 monSuccessfulBuilds, monFailedBuilds, monLastResult, monInFlight,
                 monCallbacks, monManual>>

\* the interval fires
monTick ==
  /\ UNCHANGED <<pipeVars, orchVars, chatVars, boardVars, callVars, cacheVars, jsonVars, brainVars, reviewVars, designVars, analyzeVars, saveVars>>
  /\ monIntervalId
  /\ IF monEnabled /\ monActive
     THEN performCheck(monGetter)
     ELSE UNCHANGED <<monTotalChecks, monInFlight>>
  /\ UNCHANGED <<monActive, monEnabled, monNotifyOnError, monIntervalId, monGetter,
                 monOnBuildResult, monSuccessfulBuilds, monFailedBuilds, monLastResult,
                 monCallbacks, monManual>>

\* runCICDPipeline resolves for a check: the result is counted and handed
\* to onBuildResult; what onBuildResult throws is caught by the catch block
monPipelineResolves ==
  /\ UNCHANGED <<pipeVars, orchVars, chatVars, boardVars, callVars, cacheVars, jsonVars, brainVars, reviewVars, designVars, analyzeVars, saveVars>>
  /\ monInFlight > 0
  /\ \E success \in BOOLEAN :
       LET called == monOnBuildResult # "none" /\ (success \/ monNotifyOnError)
           thrown == called /\ monOnBuildResult = "throws"
       IN /\ monLastResult' = IF success THEN "success" ELSE "failure"
          /\ monSuccessfulBuilds' = monSuccessfulBuilds + (IF success THEN 1 ELSE 0)
          /\ monFailedBuilds' =
               monFailedBuilds + (IF success THEN 0 ELSE 1) + (IF thrown THEN 1 ELSE 0)
          /\ monCallbacks' = monCallbacks + (IF called THEN 1 ELSE 0)
  /\ monInFlight' = monInFlight - 1
  /\ UNCHANGED <<monActive, monEnabled, monNotifyOnError, monIntervalId, monGetter,
                 monOnBuildResult, monTotalChecks, monManual>>

\* runCICDPipeline rejects for a check
monPipelineRejects ==
  /\ UNCHANGED <<pipeVars, orchVars, chatVars, boardVars, callVars, cacheVars, jsonVars, brainVars, reviewVars, designVars, analyzeVars, saveVars>>
  /\ monInFlight > 0
  /\ monFailedBuilds' = monFailedBuilds + 1
  /\ monInFlight' = monInFlight - 1
  /\ UNCHANGED <<monActive, monEnabled, monNotifyOnError, monIntervalId, monGetter,
                 monOnBuildResult, monTotalChecks, monSuccessfulBuilds, monLastResult,
                 monCallbacks, monManual>>

\* updateConfig: the fields given replace the configured ones; a running
\* monitor is stopped and started again with the callbacks it has
monUpdateConfig ==
  /\ UNCHANGED <<pipeVars, orchVars, chatVars, boardVars, callVars, cacheVars, jsonVars, brainVars, reviewVars, designVars, analyzeVars, saveVars>>
  /\ \E enabled \in PartialBoolean, notifyOnError \in PartialBoolean :
       /\ monNotifyOnError' = Merged(monNotifyOnError, notifyOnError)
       /\ IF monActive /\ monIntervalId
          THEN /\ monEnabled' = TRUE
               /\ performCheck(monGetter)
               /\ UNCHANGED <<monActive, monIntervalId>>
          ELSE /\ monEnabled' = Merged(monEnabled, enabled)
               /\ UNCHANGED <<monActive, monIntervalId, monTotalChecks, monInFlight>>
  /\ UNCHANGED <<monGetter, monOnBuildResult, monSuccessfulBuilds, monFailedBuilds,
                 monLastResult, monCallbacks, monManual>>

\* manualCheck with a getter registered: the pipeline runs, no counter moves
monManualCheck ==
  /\ UNCHANGED <<pipeVars, orchVars, chatVars, boardVars, callVars, cacheVars, jsonVars, brainVars, reviewVars, designVars, analyzeVars, saveVars>>
  /\ monGetter
  /\ monManual < MaxManual
  /\ monManual' = monManual + 1
  /\ UNCHANGED <<monActive, monEnabled, monNotifyOnError, monIntervalId, monGetter,
                 monOnBuildResult, monTotalChecks, monSuccessfulBuilds, monFailedBuilds,
                 monLastResult, monInFlight, monCallbacks>>

monManualReturns ==
  /\ UNCHANGED <<pipeVars, orchVars, chatVars, boardVars, callVars, cacheVars, jsonVars, brainVars, reviewVars, designVars, analyzeVars, saveVars>>
  /\ monManual > 0
  /\ monManual' = monManual - 1
  /\ UNCHANGED <<monActive, monEnabled, monNotifyOnError, monIntervalId, monGetter,
                 monOnBuildResult, monTotalChecks, monSuccessfulBuilds, monFailedBuilds,
                 monLastResult, monInFlight, monCallbacks>>

MonitorNext ==
  \/ monStart
  \/ monStop
  \/ monTick
  \/ monPipelineResolves
  \/ monPipelineRejects
  \/ monUpdateConfig
  \/ monManualCheck
  \/ monManualReturns

(***************************************************************************)
(* Part 13: saveBrainEntry with generateEmbedding, and the helpers         *)
(* saveConcept, saveDesignSystem, saveDecision (projects.ts, generator.ts) *)
(***************************************************************************)
\* the rows saved in the behaviours explored
MaxSaved == 2

SaveContents == {<<"a", "b">>, <<"c">>}

EntryTypes == {"concept", "design", "decision", "documentation", "marketing"}

\* metadata objects: functions from keys to values
NoMetadata == [key \in {} |-> ""]

\* new Date().toISOString(), not told apart here
Timestamp == "t"

Agents == {"coder"}

ConceptMetadata == [source |-> "architect", timestamp |-> Timestamp]
DesignMetadata == [source |-> "designer", timestamp |-> Timestamp]
DecisionMetadata(agent) ==
  [source |-> "docu_bot", agent |-> agent, context |-> "c", timestamp |-> Timestamp]

\* the metadata argument of a direct call (left out: the default {})
DirectMetadata == {NoMetadata, [note |-> "n"]}

NoSaveArgs == [projectId |-> "p1", content |-> <<>>, entryType |-> "concept",
               metadata |-> NoMetadata]

SaveInit ==
  /\ openaiClient = FALSE
  /\ geminiClient = FALSE
  /\ kPc = "idle"
  /\ kArgs = NoSaveArgs
  /\ kEmbedding = "none"
  /\ kRows = <<>>
  /\ kReturned = "none"

\* generateEmbedding up to its first await: initializeClients makes a
\* client that is missing when its key is stored and its constructor does
\* not throw (openaiMade, geminiMade); then OpenAI is tried, else Gemini,
\* else the placeholder is returned
generateEmbeddingStart ==
  \E openaiMade \in BOOLEAN, geminiMade \in BOOLEAN :
    /\ openaiClient' = (openaiClient \/ openaiMade)
    /\ geminiClient' = (geminiClient \/ geminiMade)
    /\ IF openaiClient' THEN kPc' = "openai" /\ kEmbedding' = "none"
       ELSE IF geminiClient' THEN kPc' = "gemini" /\ kEmbedding' = "none"
       ELSE kPc' = "insert" /\ kEmbedding' = "placeholder"

\* saveBrainEntry(projectId, content, entryType, metadata) up to the await
\* inside generateEmbedding
SaveCall(projectId, content, entryType, metadata) ==
  /\ kPc \in {"idle", "done"}
  /\ Len(kRows) < MaxSaved
  /\ kArgs' = [projectId |-> projectId, content |-> content, entryType |-> entryType,
               metadata |-> metadata]
  /\ generateEmbeddingStart
  /\ kReturned' = "none"
  /\ UNCHANGED kRows

saveBrainEntryCall ==
  /\ UNCHANGED <<pipeVars, orchVars, chatVars, boardVars, callVars, cacheVars, jsonVars, brainVars, reviewVars, designVars, analyzeVars, monVars>>
  /\ \E content \in SaveContents, entryType \in EntryTypes, metadata \in DirectMetadata :
       SaveCall("p1", content, entryType, metadata)

saveConcept ==
  /\ UNCHANGED <<pipeVars, orchVars, chatVars, boardVars, callVars, cacheVars, jsonVars, brainVars, reviewVars, designVars, analyzeVars, monVars>>
  /\ \E conceptContent \in SaveContents :
       SaveCall("p1", conceptContent, "concept", ConceptMetadata)

\* the content is JSON.stringify(designSystem)
saveDesignSystem ==
  /\ UNCHANGED <<pipeVars, orchVars, chatVars, boardVars, callVars, cacheVars, jsonVars, brainVars, reviewVars, designVars, analyzeVars, monVars>>
  /\ \E designSystem \in SaveContents :
       SaveCall("p1", designSystem, "design", DesignMetadata)

\* saveDecision with a user id at hand
saveDecision ==
  /\ UNCHANGED <<pipeVars, orchVars, chatVars, boardVars, callVars, cacheVars, jsonVars, brainVars, reviewVars, designVars, analyzeVars, monVars>>
  /\ \E decision \in SaveContents, agent \in Agents :
       SaveCall("p1", decision, "decision", DecisionMetadata(agent))

\* generateOpenAIEmbedding resolves
kOpenaiResolves ==
  /\ UNCHANGED <<pipeVars, orchVars, chatVars, boardVars, callVars, cacheVars, jsonVars, brainVars, reviewVars, designVars, analyzeVars, monVars>>
  /\ kPc = "openai"
  /\ kPc' = "insert"
  /\ kEmbedding' = "openai"
  /\ UNCHANGED <<openaiClient, geminiClient, kArgs, kRows, kReturned>>

\* generateOpenAIEmbedding rejects: Gemini is tried if there is a client,
\* else the placeholder is returned
kOpenaiRejects ==
  /\ UNCHANGED <<pipeVars, orchVars, chatVars, boardVars, callVars, cacheVars, jsonVars, brainVars, reviewVars, designVars, analyzeVars, monVars>>
  /\ kPc = "openai"
  /\ IF geminiClient THEN kPc' = "gemini" /\ kEmbedding' = "none"
     ELSE kPc' = "insert" /\ kEmbedding' = "placeholder"
  /\ UNCHANGED <<openaiClient, geminiClient, kArgs, kRows, kReturned>>

\* generateGeminiEmbedding resolves
kGeminiResolves ==
  /\ UNCHANGED <<pipeVars, orchVars, chatVars, boardVars, callVars, cacheVars, jsonVars, brainVars, reviewVars, designVars, analyzeVars, monVars>>
  /\ kPc = "gemini"
  /\ kPc' = "insert"
  /\ kEmbedding' = "gemini"
  /\ UNCHANGED <<openaiClient, geminiClient, kArgs, kRows, kReturned>>

\* generateGeminiEmbedding rejects: the placeholder is returned
kGeminiRejects ==
  /\ UNCHANGED <<pipeVars, orchVars, chatVars, boardVars, callVars, cacheVars, jsonVars, brainVars, reviewVars, designVars, analyzeVars, monVars>>
  /\ kPc = "gemini"
  /\ kPc' = "insert"
  /\ kEmbedding' = "placeholder"
  /\ UNCHANGED <<openaiClient, geminiClient, kArgs, kRows, kReturned>>

\* the row the insert writes; made_by is not a column: it records what made
\* the vector in the embedding column
InsertedRow(args, embedding) ==
  [project_id |-> args.projectId, content |-> args.content,
   entry_type |-> args.entryType, metadata |-> args.metadata, made_by |-> embedding]

\* the insert comes back: an error (or a throw before it) gives null
kInsertReturns ==
  /\ UNCHANGED <<pipeVars, orchVars, chatVars, boardVars, callVars, cacheVars, jsonVars, brainVars, reviewVars, designVars, analyzeVars, monVars>>
  /\ kPc = "insert"
  /\ kPc' = "done"
  /\ \E error \in BOOLEAN :
       IF error
       THEN kReturned' = "null" /\ UNCHANGED kRows
       ELSE /\ kReturned' = "data"
            /\ kRows' = Append(kRows, InsertedRow(kArgs, kEmbedding))
  /\ UNCHANGED <<openaiClient, geminiClient, kArgs, kEmbedding>>

SaveNext ==
  \/ saveBrainEntryCall
  \/ saveConcept
  \/ saveDesignSystem
  \/ saveDecision
  \/ kOpenaiResolves
  \/ kOpenaiRejects
  \/ kGeminiResolves
  \/ kGeminiRejects
  \/ kInsertReturns

(***************************************************************************)
(* Specifications                                                          *)
(***************************************************************************)
vars == <<pipeVars, orchVars, chatVars, boardVars, callVars, cacheVars, jsonVars,
         brainVars,
         reviewVars,
         designVars,
         analyzeVars,
         monVars,
         saveVars>>

Init == PipeInit /\ OrchInit /\ ChatInit /\ BoardInit /\ CallInit /\ CacheInit /\ JsonInit
  /\ BrainInit
  /\ ReviewInit
  /\ DesignInit
  /\ AnalyzeInit
  /\ MonitorInit
  /\ SaveInit

\* the build-analyze-fix loop, called again and again
SpecPipeline == Init /\ [][PipeNext]_vars

\* requests submitted to orchestrate, one after the other
SpecOrch == Init /\ [][OrchNext]_vars

\* requests sent in the workspace, with pause, resume and stop
SpecChat == Init /\ [][ChatNext]_vars

\* requests to the agent pipeline while the keys are edited
SpecBoard == Init /\ [][BoardNext]_vars

\* calls of callModel, one after the other
SpecCall == Init /\ [][CallNext]_vars

\* calls of the methods of the PerformanceOptimizer while time passes
SpecCache == Init /\ [][CacheNext]_vars

\* the cache filled up to and beyond its limit
SpecFill == Init /\ [][FillNext]_vars

\* calls of extractJSON and parseJSONFromText
SpecJson == Init /\ [][JsonNext]_vars

\* searches of the project brain, with rows saved in between
SpecBrain == Init /\ [][BrainNext]_vars

\* code reviews, with the API keys saved in between
SpecReview == Init /\ [][ReviewNext]_vars

\* design systems made and validated, with the API keys saved in between
SpecDesign == Init /\ [][DesignNext]_vars

\* validateDesignSystem applied to partial design systems
SpecValidateDesign == Init /\ [][ValidateDesignNext]_vars

SpecAnalyze == Init /\ [][AnalyzeNext]_vars

\* the monitor started, stopped and reconfigured while its checks run
SpecMonitor == Init /\ [][MonitorNext]_vars

\* knowledge entries saved one after the other
SpecSave == Init /\ [][SaveNext]_vars

(***************************************************************************)
(* Properties of the build-analyze-fix loop                                *)
(***************************************************************************)
PipeRunning == pPc \in {"build", "fix"}

\* Steps the run can still take: it drops with every step of a running call.
PipeRank ==
  IF pPc = "build" THEN 2 * (pMaxRetries - pAttempt)
  ELSE IF pPc = "fix" THEN 2 * (pMaxRetries - pAttempt) + 1
  ELSE 0

\* C1: a run with maxRetries = N makes at most N runBuild calls and at most
\* N-1 autoFixBuild calls (none when N = 0), and every run that has started
\* returns a BuildResult: each build or fix call that returns lowers the
\* natural number PipeRank, which is 0 only when the run has returned.
PipelineBounded ==
  /\ [](pBuilds <= pMaxRetries /\ (pFixes = 0 \/ pFixes + 1 <= pMaxRetries))
  /\ [](PipeRank >= 0 /\ (PipeRunning => PipeRank > 0))
  /\ [][PipeRunning => PipeRank' < PipeRank]_vars

PipelineBoundedWitness ==
  /\ pPc = "done"
  /\ pMaxRetries = MaxRetriesBound
  /\ pBuilds = pMaxRetries
  /\ pFixes = pMaxRetries - 1

LastFixUnfixable == pLastFix.called /\ ~pLastFix.fixed

ExhaustedCarriesLastErrors ==
  (pPc = "done" /\ pExit = "exhausted" /\ pBuilds > 0)
    => /\ ~pResult.success
       /\ pResult.errors = pBuildResult.errors
       /\ pResult.errors # <<>>
       /\ pResult.optimizations = NonEmptyOrAbsent(pAllOpts)

\* the file an error string names: the text before its first colon
NamedFile(e) == SubSeq(e, 1, IndexOfChar(e, ":") - 1)
NamedFiles(errors) == {NamedFile(errors[i]) : i \in 1..Len(errors)}

\* C4: an auto-fix round replaces the content of exactly the files named in
\* the errors with the fixer's output, leaves the other files as they were,
\* adds or removes no path, and the next cycle analyzes that file set.
AutoFixReplacesNamedFiles ==
  /\ pLastFix.called =>
       /\ MapSeq(pCurrentFiles, LAMBDA e : e.path) = MapSeq(pLastFix.files, LAMBDA e : e.path)
       /\ \A p \in KeysOf(pLastFix.files) :
            IF p \in NamedFiles(pLastFix.errors)
            THEN \E i \in 1..Len(pLastFix.handed) :
                   /\ pLastFix.handed[i].path = p
                   /\ Get(pCurrentFiles, p) = pLastFix.handed[i].output
            ELSE Get(pCurrentFiles, p) = Get(pLastFix.files, p)
  /\ (pBuilds > 0 /\ pPc # "build") => pBuildInput = pCurrentFiles


(***************************************************************************)
(* Properties of orchestrate                                               *)
(***************************************************************************)
IsPrefix(s, t) == Len(s) <= Len(t) /\ s = SubSeq(t, 1, Len(s))

StagesWithBuild == <<"prompt_expert", "planner", "creative", "coder", "reviewer", "build">>
StagesOfOrchestrate == <<"prompt_expert", "planner", "creative", "coder", "reviewer">>

ThrownMessages ==
  {AgentThrows.text, "Unexpected token", "filesToCreate is not iterable",
   "Cannot read properties of undefined"}

\* C7: when a stage throws, the request ends as Failed with the processing
\* state cleared, the last log entry is the critical-failure entry and the
\* last chat message the failure message, both carrying the thrown message,
\* and every node the request had added to the tree is still in the tree.
ThrowIsCaughtWithoutRollback ==
  oStatus = "Failed" =>
    /\ ~isProcessing /\ currentAgent = "none" /\ oPc = "idle"
    /\ \E m \in ThrownMessages :
         /\ logs[Len(logs)] = <<"System", "error", "Kritischer Fehler: " \o m>>
         /\ lastMessage = [role |-> "model", text |-> "Fehler: " \o m]
    /\ oArtifacts \subseteq DOMAIN project

ThrowIsCaughtWithoutRollbackWitness ==
  /\ oStatus = "Failed"
  /\ oArtifacts # {}
  /\ \E q \in oArtifacts : q \notin DOMAIN oFilesAtStart

(***************************************************************************)
(* Properties of the workspace: pause, resume and stop                     *)
(***************************************************************************)
\* C6: every request that was started reaches a terminal state; none hangs.
\* A request blocked at a checkpoint is released only through the resolver
\* in pauseResolverRef, so one that is blocked while the resolver belongs to
\* another request stays blocked for ever.
NoRequestIsStranded ==
  \A i \in ChatIds : cPc[i] = "blocked" => pauseResolverRef = i

StageOfCall(pc) ==
  CASE pc = "await_expert" -> "optimizing"
    [] pc = "await_planner" -> "planning"
    [] pc \in {"await_asset", "await_image"} -> "designing"
    [] pc = "await_sleep" -> "database"
    [] pc = "await_coder" -> "coding"
    [] pc = "await_review" -> "reviewing"
    [] OTHER -> "none"

\* C9: once pause has been requested and until resume (or stop) is called,
\* a running request starts no call of a further stage: it finishes the
\* call it awaits and then blocks at the next checkpoint.
PausedRequestStartsNoStage ==
  [][(cPausePending /\ cPausePending') =>
       \A i \in ChatIds :
         (cPc[i] \in ActiveStates /\ StageOfCall(cPc'[i]) # "none")
           => StageOfCall(cPc'[i]) = StageOfCall(cPc[i])]_vars

\* C10: after stop has been requested a request that was running changes
\* the file tree no more: each of its steps leaves project.files as it is.
StoppedRequestWritesNothing ==
  [][\A i \in ChatIds : (cStopped[i] /\ cPc'[i] # cPc[i]) => cTree' = cTree]_vars

(***************************************************************************)
(* Properties of the agent pipeline                                        *)
(***************************************************************************)
NoModelMessage == "Kein verfügbares Modell für Prompt-Optimierung"

BrainFilesInTree ==
  Len(oTrace) >= 4 =>
    /\ PathConcept \in DOMAIN project
    /\ project[PathConcept] = FileNode(conceptMd)
    /\ PathDesign \in DOMAIN project
    /\ project[PathDesign] = FileNode(DesignJson)

\* C12: a coder answer that does not parse starts exactly one JSON-repair
\* call; when that call has returned the request ends, and it ends Failed
\* when the repaired text does not parse either: no second repair is made.
OneJsonRepair ==
  /\ [](oRepairs <= 1 /\ (oPc = "await_fix" => oRepairs = 1))
  /\ [][(oPc = "await_code" /\ oPc' = "await_fix") => (oRepairs = 0 /\ oRepairs' = 1)]_vars
  /\ [][oPc = "await_fix" =>
          /\ oRepairs' = 1
          /\ oPc' # "await_fix" => (oPc' = "idle" /\ oStatus' \in {"Success", "Failed"})]_vars
  /\ [](lastMessage.text = "Fehler: Unexpected token" => (oStatus = "Failed" /\ oRepairs = 1))

OneJsonRepairWitness ==
  oStatus = "Failed" /\ oRepairs = 1 /\ lastMessage.text = "Fehler: Unexpected token"

(***************************************************************************)
(* Properties of ModelRouter.callModel                                     *)
(***************************************************************************)
\* C13: callModel makes at most maxRetries provider calls; it returns the
\* response of the first call that succeeds, every earlier call having
\* failed, and makes no call after it; it throws "Alle Versuche
\* fehlgeschlagen: <message of the last error>" exactly when maxRetries
\* attempts have thrown; before that every error, whatever its message,
\* leads to the next attempt.
CallModelRetriesToTheBound ==
  /\ mCalls <= mMaxRetries
  /\ Len(mErrors) <= mMaxRetries
  /\ mOutcome.kind = "returned" =>
       /\ mPc = "idle"
       /\ mOutcome.text \in ProviderResponses
       /\ mCalls = Len(mErrors) + 1
  /\ mOutcome.kind = "thrown" <=> Len(mErrors) = mMaxRetries
  /\ mOutcome.kind = "thrown" =>
       /\ mPc = "idle"
       /\ mOutcome.text = "Alle Versuche fehlgeschlagen: " \o mErrors[mMaxRetries]
       /\ mCalls = IF mProvider \in CalledProviders THEN mMaxRetries ELSE 0
  /\ (mOutcome.kind = "none" /\ Len(mErrors) > 0) => mPc \in {"sleep", "await_provider"}

CallModelRetriesWitness ==
  /\ mOutcome.kind = "thrown"
  /\ mMaxRetries = MaxCallRetries
  /\ mCalls = MaxCallRetries
  /\ mErrors[1] # mErrors[2]

\* C14: the timer after failed attempt a, when a is not the last attempt,
\* is set to 2^a * 1000 ms, and the next attempt starts when it has fired;
\* after the last failed attempt the error is thrown and no timer is set.
BackoffDoublesAndStopsAtLast ==
  /\ \A i \in 1..Len(mSleeps) :
       mSleeps[i] = IF i = 1 THEN 1000 ELSE 2 * mSleeps[i - 1]
  /\ mPc = "sleep" =>
       /\ Len(mSleeps) = Len(mErrors)
       /\ mAttempt = Len(mErrors) - 1
       /\ mAttempt < mMaxRetries - 1
  /\ mPc = "await_provider" => (Len(mSleeps) = mAttempt /\ Len(mErrors) = mAttempt)
  /\ mOutcome.kind = "returned" => Len(mSleeps) = Len(mErrors)
  /\ mOutcome.kind = "thrown" =>
       (Len(mErrors) = mMaxRetries /\ Len(mSleeps) = mMaxRetries - 1)

BackoffWitness ==
  mOutcome.kind = "thrown" /\ mSleeps = <<1000, 2000>>

(***************************************************************************)
(* Properties of ModelRouter.selectModel                                   *)
(***************************************************************************)
\* C15: whatever keys have been saved, updated or cleared and whenever the
\* clients have been refreshed, a configuration returned by selectModel names
\* a provider whose client exists and whose key is stored at that moment.
SelectedModelHasClientAndKey ==
  \A t \in TaskTypes, c \in Complexities :
    LET m == selectModel(t, c, clients, apiKeys)
    IN m # NoConfig => (m.provider \in clients /\ apiKeys[m.provider] # "")

SelectedModelWitness ==
  /\ "claude" \in clients /\ apiKeys["claude"] = ""
  /\ "gemini" \notin clients /\ apiKeys["gemini"] # ""
  /\ "openai" \in clients /\ apiKeys["openai"] # ""
  /\ selectModel("coding", "high", clients, apiKeys).provider = "openai"

\* the fixed ranking A > B > C > D
Ranking == <<"claude", "gemini", "openai", "huggingface">>

RankOf(provider) == CHOOSE i \in 1..Len(Ranking) : Ranking[i] = provider

\* a provider's specialization covers the task
Specializes(provider, taskType, complexity) ==
  CASE provider = "claude" -> taskType = "reasoning" \/ taskType = "coding" \/ complexity = "high"
    [] provider = "gemini" -> taskType = "speed" \/ taskType = "creative" \/ taskType = "image"
    [] provider = "openai" -> TRUE
    [] OTHER -> FALSE

\* C16: selectModel returns the provider ranked first (claude, gemini,
\* openai, huggingface) among the configured providers (client created, key
\* stored) whose specialization covers the task type and complexity; it
\* returns null when there is no such provider, in particular when no
\* provider is configured.
SelectModelTakesHighestPriority ==
  \A t \in TaskTypes, c \in Complexities :
    LET m == selectModel(t, c, clients, apiKeys)
        candidates == {p \in Providers :
                         /\ p \in clients
                         /\ apiKeys[p] # ""
                         /\ Specializes(p, t, c)}
    IN /\ candidates = {} => m = NoConfig
       /\ candidates # {} =>
            /\ m.provider \in candidates
            /\ \A q \in candidates : RankOf(m.provider) <= RankOf(q)
       /\ (apiKeys = NoKeys \/ clients = {}) => m = NoConfig

SelectModelPriorityWitness ==
  /\ clients = Providers
  /\ \A p \in Providers : apiKeys[p] # ""
  /\ selectModel("speed", "high", clients, apiKeys).provider = "claude"
  /\ selectModel("speed", "low", clients, apiKeys).provider = "gemini"
  /\ selectModel("general", "low", clients, apiKeys).provider = "openai"

(***************************************************************************)
(* Properties of the cache of build results                                *)
(***************************************************************************)
\* C17: a run of the build pipeline that is given the file map which the
\* run before it was given and has analysed, with no time passed in
\* between, makes no runBuild call: it takes the result from the cache.
RepeatedRunSkipsAnalysis == pRepeat => pBuilds = 0

\* the two file maps hold the same path-to-content pairs
SamePairs(m, n) == {m[i] : i \in 1..Len(m)} = {n[i] : i \in 1..Len(n)}

\* C18: the key hashProjectFiles returned is the key of every file map that
\* holds the same path-to-content pairs in another order of the keys.
KeyIgnoresKeyOrder ==
  hashedFiles # <<>> =>
    \A m \in CacheFileMaps : SamePairs(m, hashedFiles) => hashProjectFiles(m) = hashedKey

KeyIgnoresKeyOrderWitness ==
  /\ Len(hashedFiles) = 2
  /\ CodeUnitsLess(hashedFiles[2].path, hashedFiles[1].path)
  /\ hashedKey = hashProjectFiles(<<hashedFiles[2], hashedFiles[1]>>)

\* the strings have the same length and differ at exactly one index
OneCharChanged(s, t) ==
  /\ Len(s) = Len(t)
  /\ Cardinality({i \in 1..Len(s) : s[i] # t[i]}) = 1

\* the file maps have the same keys in the same order and differ in one
\* character of the content of one file
OneCharOfOneFileChanged(m, n) ==
  /\ Len(m) = Len(n)
  /\ \A i \in 1..Len(m) : m[i].path = n[i].path
  /\ \E i \in 1..Len(m) :
       /\ OneCharChanged(m[i].content, n[i].content)
       /\ \A j \in 1..Len(m) : j # i => m[j].content = n[j].content

\* C19: a file map that differs from the hashed one in a single character
\* of one file's content has another key.
OneCharChangesKey ==
  hashedFiles # <<>> =>
    \A m \in CacheFileMaps :
      OneCharOfOneFileChanged(m, hashedFiles) => hashProjectFiles(m) # hashedKey

\* C20: getCachedResult returns a result only from an entry younger than
\* 5 minutes; called for an entry whose age is 5 minutes or more it returns
\* null and the entry is gone from the cache.
ExpiredEntryIsAMiss ==
  /\ [](cacheReturned.hit => (0 <= cacheReturned.age /\ cacheReturned.age < 5 * 60 * 1000))
  /\ [][\A i \in 1..Len(cache) :
          (/\ cacheOp' = "get"
           /\ cacheNow' = cacheNow
           /\ hashedKey' = cache[i].fileHash
           /\ cacheNow - cache[i].timestamp >= 5 * 60 * 1000)
          => (/\ ~cacheReturned'.hit
              /\ \A j \in 1..Len(cache') : cache'[j].fileHash # cache[i].fileHash)]_vars

ExpiredEntryWitness ==
  /\ cacheOp = "get"
  /\ ~cacheReturned.hit
  /\ cacheReturned.age = 5 * 60 * 1000
  /\ cache = <<>>

(***************************************************************************)
(* Properties of the size of the cache                                     *)
(***************************************************************************)
\* C21: whatever cacheResult and getCachedResult calls have been made, the
\* cache holds at most 50 entries.
CacheHoldsAtMostFifty == Len(cache) <= 50

CacheHoldsAtMostFiftyWitness ==
  /\ Len(cache) = 50
  /\ cacheOp = "set"
  /\ hashedKey = FillKey[52]
  /\ \A i \in 1..Len(cache) : cache[i].fileHash # FillKey[2]

\* C22: when cacheResult puts a new key into a cache of 50 entries, the
\* entry that leaves the cache has the earliest timestamp of the 50, also
\* when a key was cached again with a fresh timestamp before.
EvictedEntryIsOldest ==
  [][(/\ cacheOp' = "set"
      /\ cacheNow' = cacheNow
      /\ Len(cache) = 50
      /\ CacheIndex(cache, hashedKey') = 0)
     => \A i \in 1..Len(cache) :
          CacheIndex(cache', cache[i].fileHash) = 0
          => \A j \in 1..Len(cache) : cache[i].timestamp <= cache[j].timestamp]_vars

(***************************************************************************)
(* Properties of lib/jsonParser.ts                                         *)
(***************************************************************************)
\* C23: for a well-formed JSON object put into any surrounding text,
\* extractJSON returns exactly the text of that object.
ExtractReturnsEmbeddedObject ==
  jOp = "extract" => jExtracted = Present(jEmbedded)


\* the extracted text is missing, is no JSON, or lacks a required field
ExtractionFails == ~jExtracted.defined
ParsingFails == jExtracted.defined /\ ~jParsed.ok
FieldMissing(obj, field) ==
  \/ ~\E i \in 1..Len(obj.m) : obj.m[i].k = field
  \/ \E i \in 1..Len(obj.m) :
       obj.m[i].k = field /\ obj.m[i].v \in {JNull, JString(<<>>)}
RequiredFieldFails == jParsed.ok /\ \E field \in jFields : FieldMissing(jParsed.v, field)

TextMatches ==
  {i \in 1..Len(projectBrain) :
     /\ projectBrain[i].project_id = sProject
     /\ \E k \in 0..Len(projectBrain[i].content) :
          /\ k + Len(sQuery) <= Len(projectBrain[i].content)
          /\ \A n \in 1..Len(sQuery) :
               LowerChar(projectBrain[i].content[k + n]) = LowerChar(sQuery[n])}

\* r holds the newest matching rows, newest first, as many as the limit allows
IsTextSearchResult(r) ==
  /\ \A n \in 1..Len(r) : \E i \in TextMatches : r[n] = projectBrain[i]
  /\ \A n \in 1..(Len(r) - 1) : r[n].created_at > r[n + 1].created_at
  /\ Len(r) = IF Cardinality(TextMatches) < sLimit THEN Cardinality(TextMatches) ELSE sLimit
  /\ \A i \in TextMatches :
       (\A n \in 1..Len(r) : r[n] # projectBrain[i])
         => \A n \in 1..Len(r) : projectBrain[i].created_at < r[n].created_at

\* C25: a search whose similarity path failed returns what the text search
\* gives at that moment for the same project, query and limit (nothing when
\* the text search itself comes back with an error), and no search throws.
SimilarityErrorGivesTextSearch ==
  [][(sPc # "done" /\ sPc' = "done")
       => /\ sOutcome'.kind = "returned"
          /\ sRaised' => IF sFallbackError' THEN sOutcome'.value = <<>>
                         ELSE IsTextSearchResult(sOutcome'.value)]_vars

\* two rows of three match, the limit is 1, and the newest match is returned
SimilarityErrorGivesTextSearchWitness ==
  /\ sPc = "done"
  /\ sRaised
  /\ ~sFallbackError
  /\ Len(projectBrain) = 3
  /\ Cardinality(TextMatches) = 2
  /\ sLimit = 1
  /\ sOutcome.kind = "returned"
  /\ IsTextSearchResult(sOutcome.value)

\* the review has an issue of severity critical or high
HasSevereIssue(review) ==
  \E i \in 1..Len(JGet(review, Str_issues).m) :
    JGet(JGet(review, Str_issues).m[i].v, Str_severity)
      \in {JString(Str_critical), JString(Str_high)}

\* C26: a review that reviewCode returns, made by the model or by the simple
\* check, has passed = true exactly when none of its issues is critical or
\* high.
PassedIffNoSevereIssue ==
  rPc = "done" => (JGet(rReview, Str_passed) = JBool(TRUE) <=> ~HasSevereIssue(rReview))

\* the fields of a DesignSystem, each the path of keys to it
FontSizeNames == {Str_xs, Str_sm, Str_base, Str_lg, Str_xl, Str_2xl}
SpacingNames == {Str_xs, Str_sm, Str_md, Str_lg, Str_xl}
BorderRadiusNames == {Str_sm, Str_md, Str_lg, Str_xl}
DesignFields ==
  {<<Str_theme>>, <<Str_assets>>, <<Str_typography, Str_fontFamily>>}
    \cup {<<Str_colors, ColorNames[i]>> : i \in 1..Len(ColorNames)}
    \cup {<<Str_typography, Str_fontSize, n>> : n \in FontSizeNames}
    \cup {<<Str_spacing, n>> : n \in SpacingNames}
    \cup {<<Str_borderRadius, n>> : n \in BorderRadiusNames}

RECURSIVE JAt(_, _)
\* the value at a path of keys, undefined when the path leads nowhere
JAt(value, path) ==
  IF path = <<>> THEN value ELSE JAt(JProp(value, Head(path)), Tail(path))

\* the field is there: neither undefined nor null
HasValue(value) == value \notin {JUndefined, JNull}

\* C27: validateDesignSystem gives a design system with every field
\* populated, and each field that its input has is in the output unchanged.
ValidatedSystemIsCompleteAndKeepsInput ==
  vOutput # JUndefined
    => \A path \in DesignFields :
         /\ HasValue(JAt(vOutput, path))
         /\ HasValue(JAt(vInput, path)) => JAt(vOutput, path) = JAt(vInput, path)

\* what the model response supplied: the object in it, if it has one
Supplied ==
  IF extractJSON(dResponse).defined /\ JsonParse(extractJSON(dResponse).value).ok
  THEN JsonParse(extractJSON(dResponse).value).v ELSE JObject(<<>>)

\* C28: the design system made of a model response has each field that the
\* response supplied unchanged, and the default value in each other field.
ResponseIsBackfilledFieldByField ==
  (dPc = "done" /\ dVia = "model")
    => \A path \in DesignFields :
         JAt(dSystem, path) = IF HasValue(JAt(Supplied, path))
                              THEN JAt(Supplied, path)
                              ELSE JAt(getDefaultDesignSystem, path)

\* the messages of a list that are about the file at path
MessagesFor(messages, path) ==
  {i \in 1..Len(messages) :
     /\ Len(messages[i]) >= Len(path) + 2
     /\ SubSeq(messages[i], 1, Len(path) + 2) = path \o <<":", " ">>}

\* how often a message is in a list
Occurrences(messages, message) == Cardinality({i \in 1..Len(messages) : messages[i] = message})

\* the content has nothing but white space
IsBlank(content) == \A i \in 1..Len(content) : content[i] \in {" ", "\n", "\t"}

BracesDiffer(content) ==
  Cardinality({i \in 1..Len(content) : content[i] = "{"})
    # Cardinality({i \in 1..Len(content) : content[i] = "}"})

\* the project of the example: App.ts with one unclosed brace, u.ts empty
IsBraceExample(files) ==
  /\ Len(files) = 2
  /\ \E i \in 1..2 : files[i] = [path |-> PathApp, content |-> ContentOpen]
  /\ \E i \in 1..2 : files[i] = [path |-> PathUtil, content |-> ContentEmpty]

\* C29 as stated: a build result has an error for each source file with
\* unequal braces, has the empty-file warning and no error for each empty
\* file, and fails exactly when it has errors; the example gives one error,
\* one empty-file warning and a failed build.
BuildErrorsAsStated ==
  pBuildResult # NoBuildResult
    => /\ \A i \in 1..Len(pBuildInput) :
            LET f == pBuildInput[i]
            IN /\ (IsSourcePath(f.path) /\ BracesDiffer(f.content))
                    => MessagesFor(pBuildResult.errors, f.path) # {}
               /\ IsBlank(f.content)
                    => /\ Occurrences(pBuildResult.warnings,
                                      ErrorString(f.path, MsgEmptyFile)) = 1
                       /\ MessagesFor(pBuildResult.errors, f.path) = {}
       /\ pBuildResult.success = FALSE <=> pBuildResult.errors # <<>>
       /\ IsBraceExample(pBuildInput)
            => /\ Len(pBuildResult.errors) = 1
               /\ Len(pBuildResult.warnings) = 1
               /\ pBuildResult.success = FALSE

\* the messages of the static analysis about the file at path
StaticMessages(path) == {ErrorString(path, m) : m \in {MsgBraces, MsgParens, MsgHook}}

\* C29 amended: a build result has the unequal-braces error for each source
\* file with unequal braces; for each empty file it has the empty-file
\* warning, no error of the static analysis, and no error at all unless the
\* file is one the AI analysis looks at; it fails exactly when it has
\* errors; the example gives one unequal-braces error, one empty-file
\* warning, no error for the empty file and a failed build.
BuildErrorsOfStaticAnalysis ==
  pBuildResult # NoBuildResult
    => /\ \A i \in 1..Len(pBuildInput) :
            LET f == pBuildInput[i]
            IN /\ (IsSourcePath(f.path) /\ BracesDiffer(f.content))
                    => Occurrences(pBuildResult.errors, ErrorString(f.path, MsgBraces)) = 1
               /\ IsBlank(f.content)
                    => /\ Occurrences(pBuildResult.warnings,
                                      ErrorString(f.path, MsgEmptyFile)) = 1
                       /\ \A j \in MessagesFor(pBuildResult.errors, f.path) :
                            /\ pBuildResult.errors[j] \notin StaticMessages(f.path)
                            /\ IsCriticalPath(f.path)
       /\ pBuildResult.success = FALSE <=> pBuildResult.errors # <<>>
       /\ IsBraceExample(pBuildInput)
            => /\ Occurrences(pBuildResult.errors, ErrorString(PathApp, MsgBraces)) = 1
               /\ Occurrences(pBuildResult.warnings, ErrorString(PathUtil, MsgEmptyFile)) = 1
               /\ MessagesFor(pBuildResult.errors, PathUtil) = {}
               /\ pBuildResult.success = FALSE

\* the build of the example, with an error of the AI analysis besides
BuildErrorsWitness ==
  /\ IsBraceExample(pBuildInput)
  /\ pBuildResult # NoBuildResult
  /\ Len(pBuildResult.errors) = 2
  /\ Occurrences(pBuildResult.errors, ErrorString(PathApp, MsgBraces)) = 1
  /\ pBuildResult.warnings = <<ErrorString(PathUtil, MsgEmptyFile)>>
  /\ pBuildResult.success = FALSE

\* the paths whose analyzer has been called in the current build
AnalyzedPaths == aInFlight \cup DOMAIN aAnswers

\* C30: during the AI analysis phase of a build at most 3 file analyses are
\* in flight at any moment, and every file analysed has a path that contains
\* App, index, main or component.
AtMostThreeCriticalInFlight ==
  /\ Cardinality(aInFlight) <= 3
  /\ \A p \in AnalyzedPaths : IsCriticalPath(p)

\* a project with more than five critical files and a file that is not
\* critical, with the three analyses of the first batch in flight
AtMostThreeCriticalInFlightWitness ==
  /\ aPc = "batch"
  /\ Cardinality(aInFlight) = 3
  /\ aAnswers = NoAnswers
  /\ \E i \in 1..Len(aFiles) : ~IsCriticalPath(aFiles[i].path)
  /\ Len(SelectSeq(aFiles, LAMBDA e : IsCriticalPath(e.path))) > MaxAIFiles

\* one check of the monitor completes in this step
CheckCompletes == monInFlight' = monInFlight - 1

\* C31: at all times successfulBuilds + failedBuilds is at most totalChecks,
\* and equal to it when no check is in flight; each check that completes
\* adds one to exactly one of the two counters.
CountersAccountForEveryCheck ==
  /\ [](/\ monSuccessfulBuilds + monFailedBuilds <= monTotalChecks
        /\ monInFlight = 0 => monSuccessfulBuilds + monFailedBuilds = monTotalChecks)
  /\ [][CheckCompletes =>
          monSuccessfulBuilds' + monFailedBuilds' = monSuccessfulBuilds + monFailedBuilds + 1]_vars

\* C37: at most one check of the monitor is awaiting the build loop.
AtMostOneCheckInFlight == monInFlight <= 1

\* stop has returned and start has not been called since
MonitorStopped == monGetter /\ ~monActive

\* C38: while the monitor is stopped no check starts, onBuildResult is not
\* called and no counter changes.
StoppedMonitorIsQuiet ==
  [][(MonitorStopped /\ MonitorStopped')
       => /\ monInFlight' <= monInFlight
          /\ monCallbacks' = monCallbacks
          /\ monTotalChecks' = monTotalChecks
          /\ monSuccessfulBuilds' = monSuccessfulBuilds
          /\ monFailedBuilds' = monFailedBuilds]_vars

\* the columns of two rows other than the embedding are the same
SameButEmbedding(r1, r2) ==
  /\ r1.project_id = r2.project_id
  /\ r1.content = r2.content
  /\ r1.entry_type = r2.entry_type
  /\ r1.metadata = r2.metadata

\* C32: an entry whose embedding is the hash-based placeholder is told apart
\* from the entries with a real embedding by what is stored with it: no row
\* with a placeholder embedding has the columns of a row with a real one.
PlaceholderIsDistinguished ==
  \A i, j \in 1..Len(kRows) :
    (kRows[i].made_by = "placeholder" /\ kRows[j].made_by # "placeholder")
      => ~SameButEmbedding(kRows[i], kRows[j])

SourcedTypes == {"concept", "design", "decision", "marketing"}

\* C33: every stored entry of type concept, design, decision or marketing
\* has a source tag in its metadata.
SourcedTypesCarrySource ==
  \A i \in 1..Len(kRows) :
    kRows[i].entry_type \in SourcedTypes => "source" \in DOMAIN kRows[i].metadata

(***************************************************************************)
(* Properties of the generated files applied by orchestrate                *)
(***************************************************************************)
\* what Step 5 makes of the list filesToCreate in the current state
FilesApplied(filesToCreate) ==
  ApplyFiles(filesToCreate,
             [tree |-> project, added |-> {}, applied |-> 0, completed |-> FALSE], now)

GeneratedPaths(filesToCreate) == {filesToCreate[i].path : i \in 1..Len(filesToCreate)}

\* the step in which the reviewing stage applies a list and the request succeeds
ReviewSucceeds ==
  /\ oPc \in {"await_code", "await_fix"}
  /\ oPc' = "idle"
  /\ oStatus' = "Success"

\* C34: when the reviewing stage has applied the generated list, the tree
\* has for every generated {path, content} a file node at that path with
\* that content, and every other node that was in the tree is as it was.
GeneratedFilesAreInTree ==
  [][ReviewSucceeds =>
        \A filesToCreate \in GenLists :
          (FilesApplied(filesToCreate).completed /\ project' = FilesApplied(filesToCreate).tree)
            => /\ \A i \in 1..Len(filesToCreate) :
                    /\ filesToCreate[i].path \in DOMAIN project'
                    /\ project'[filesToCreate[i].path] = FileNode(filesToCreate[i].content)
               /\ \A p \in DOMAIN project \ GeneratedPaths(filesToCreate) :
                    /\ p \in DOMAIN project'
                    /\ project'[p] = project[p]]_vars

\* the step of handleStop, or of handleResume
StopOrResumeStep ==
  \/ agentStep # "idle" /\ agentStep' = "idle"
  \/ isPaused /\ ~isPaused' /\ cStarted' = cStarted

\* C35: a resume or a stop releases every request that is blocked at a pause
\* checkpoint, whatever pause, resume, stop and new requests came before: no
\* request is left blocked with the pause flag cleared.
ResumeOrStopReleasesBlocked ==
  [][StopOrResumeStep => \A i \in ChatIds : cPc'[i] # "blocked"]_vars

\* C36: at most one request is running at a time (a stopped request that
\* has not yet thrown counts as running): no submission starts a second one
\* on the same file tree.
AtMostOneActiveRequest ==
  Cardinality({i \in ChatIds : cPc[i] \in ActiveStates}) <= 1

(***************************************************************************)
(* Properties of the errors autoFixBuild is given                          *)
(***************************************************************************)
\* the error was among the issues the fixer got for its file
HandedToFixer(fix, error) ==
  /\ ErrorMatch(error).ok
  /\ \E j \in 1..Len(fix.handed) : fix.handed[j].path = ErrorMatch(error).file

InRemainingErrors(fix, error) ==
  \E j \in 1..Len(fix.remainingErrors) : fix.remainingErrors[j] = error

\* C39: every error autoFixBuild is given is handed to the fixer for its
\* file or is in remainingErrors; with fixed = true every error was handed
\* to the fixer.
EveryBuildErrorIsAccountedFor ==
  pLastFix.called =>
    \A i \in 1..Len(pLastFix.errors) :
      /\ HandedToFixer(pLastFix, pLastFix.errors[i])
           \/ InRemainingErrors(pLastFix, pLastFix.errors[i])
      /\ pLastFix.fixed => HandedToFixer(pLastFix, pLastFix.errors[i])

\* C40: the result of runBuild is determined by the file map and the
\* per-file analysis results: whatever order the analyses complete in, the
\* errors, warnings and optimization notes are those, in the order, of the
\* build whose analyses complete in file order.
BuildResultIgnoresCompletionOrder ==
  aPc = "done" => aResult = runBuild(aFiles, aAnswers)
====
